---------------------------- MODULE Spec2Model ----------------------------
(***************************************************************************)
(* Verification model of the bouncearena backend: the matchmaking queues   *)
(* (src/src/services/MatchmakingService.ts), the per-match simulation      *)
(* loops (src/src/game/GameManager.ts), and the socket handlers that bind  *)
(* them to the rating records (src/src/index.ts).                          *)
(*                                                                         *)
(* Time is in milliseconds, as Date.now() is.  Object identity of a queue  *)
(* entry (used by Array.indexOf) is carried by the field eid.  The         *)
(* cosmetic loadout of an entry is an opaque payload that no decision of   *)
(* the code reads, so it is not carried.                                   *)
(***************************************************************************)
EXTENDS Integers, Sequences, FiniteSets, TLC

VARIABLES
    now,            \* Date.now()
    rankedQueue,    \* MatchmakingService.rankedQueue
    unrankedQueue,  \* MatchmakingService.unrankedQueue
    nextEid,        \* identity of the next QueuedPlayer object created
    advances,       \* number of clock steps taken so far
    ret,            \* the last queue operation: its time, argument, pre-state, result
    matchCount,     \* eid -> times the entry was returned as opponent
    removeCount,    \* eid -> times the entry was removed by dequeue/expire
    matches,        \* GameManager.matches: match id -> Match
    gameLoops,      \* GameManager.gameLoops: match id -> interval handle
    previousStates, \* GameManager.previousStates: match id -> GameState
    intervals,      \* the setInterval timers not yet cleared: handle -> closure
    nextHandle,     \* the handle the next setInterval returns
    freeIds,        \* the match ids uuidv4() has not produced yet
    goalsLeft,      \* number of points the model still lets the physics score
    endCalls,       \* match id -> number of calls of the winner sink onEnd
    lateDelta,      \* match ids whose delta sink was called after their onEnd
    ev,             \* the last GameManager or socket event and its outcome
    fired,          \* handles of the timers whose callback has run
    emitted,        \* what the last tick passed to onUpdate ("none": nothing yet)
    received,       \* what a receiver of the deltas holds (no field: nothing yet)
    sinceServe,     \* ticks the loop has run since the ball was last put on the centre
    movesLeft,      \* paddle updates the players may still send during play
    matchStatus,    \* match id -> status field of the Match object, kept
                    \* after the object has left the table ("none": not created)
    playerData,     \* index.ts playerData: wallet -> rating record
    loading,        \* per wallet, the getPlayerRating calls that get_rating awaits
    connected,      \* the sockets connected
    activeMatches,  \* index.ts activeMatches, in insertion order
    pendingStarts,  \* the setTimeout(..., 3000) callbacks not yet run
    joinsLeft,      \* join_queue events the run may still take
    dropped,        \* the active matches a disconnecting socket was playing
    cancelled,      \* match ids a cancel_match handler has cancelled
    resolved,       \* match id -> the completions and forfeits resolved for it
    persisting,     \* the persistence calls issued and not yet settled
    eloCall         \* a call of calculateEloChange: its arguments and its result

qvars == <<now, rankedQueue, unrankedQueue, nextEid, advances, ret,
           matchCount, removeCount, eloCall>>

gvars == <<matches, gameLoops, previousStates, intervals, nextHandle, freeIds,
           goalsLeft, endCalls, lateDelta, ev, fired, matchStatus, emitted,
           received, sinceServe, movesLeft>>

svars == <<playerData, loading, connected, activeMatches, pendingStarts,
           joinsLeft, dropped, cancelled, resolved, persisting>>

vars == <<qvars, gvars, svars>>

----------------------------------------------------------------------------
(* Bounds of the model *)

MaxEntries == 3
MaxAdvances == 2
MaxLoops == 2
MaxJoins == 4
PlayJoins == 2
MaxGoals == 1
MaxTicks == 4
MaxPoints == 1
MaxMoves == 1
MoveEvery == 20
MaxRatingSteps == 6
\* The ticks a rally is followed for: enough for the ball to reach its top speed
MaxRally == 3600
\* The getPlayerRating calls in flight at a time
MaxLoads == 2

(* Program constants, MatchmakingService.ts lines 3-6 *)
MATCH_TIMEOUT == 60000
RATING_RANGE_INITIAL == 100
RATING_RANGE_MAX == 500
RATING_EXPAND_INTERVAL == 10000

Sockets == {"s1", "s2"}
Wallets == {"w1", "w2"}
\* Each wallet plays over its own socket
SocketOf(w) == IF w = "w1" THEN "s1" ELSE "s2"
QueueTypes == {"ranked", "unranked"}
Ratings == {1000, 1110, 1120}
\* Steps of the clock between two calls: past the timeout, and one
\* millisecond short of an interval of the search radius
ClockSteps == {90000, 9999}
\* The milliseconds by which the clock may step while one call runs
ClockDrift == 1

Eids == 1..(MaxEntries + 1)
MatchIds == {"m1", "m2"}

----------------------------------------------------------------------------
(* Helpers *)

Min(a, b) == IF a <= b THEN a ELSE b
Max(a, b) == IF a >= b THEN a ELSE b
Abs(x) == IF x < 0 THEN -x ELSE x

\* The sum of f over the set S
RECURSIVE SumOver(_, _)
SumOver(f, S) ==
    IF S = {} THEN 0
    ELSE LET x == CHOOSE y \in S : TRUE
         IN f[x] + SumOver(f, S \ {x})

\* A JavaScript Map as a function: absent keys are outside the domain
EmptyMap == [k \in {} |-> 0]
Put(f, k, v) == [x \in (DOMAIN f) \cup {k} |-> IF x = k THEN v ELSE f[x]]
Del(f, k) == [x \in (DOMAIN f) \ {k} |-> f[x]]

RemoveAt(s, i) == SubSeq(s, 1, i - 1) \o SubSeq(s, i + 1, Len(s))

\* Array.findIndex, given the set of the indices that satisfy the
\* predicate: the first of them, 0 when there is none
FindIndex(hits) ==
    IF hits = {} THEN 0 ELSE CHOOSE i \in hits : \A j \in hits : i <= j

----------------------------------------------------------------------------
(* Numbers of the simulation.  The positions, velocities and speeds of a     *)
(* game state are JavaScript numbers, that is IEEE-754 doubles; the          *)
(* operators below compute on them as the engine does: the exact result of   *)
(* each operation rounded to the nearest double, halves to the even one.     *)

\* A double is a record [s, e, hi, lo]: s its sign (1, -1, and 0 for zero),
\* e the exponent of its leading bit, hi and lo the upper and lower 26 bits
\* of the 52 bits after the leading one: the value is
\* s * (2^52 + hi * 2^26 + lo) * 2^(e - 52).
Two26 == 67108864
Two13 == 8192

Zero == [s |-> 0, e |-> 0, hi |-> 0, lo |-> 0]

\* Whole numbers of up to 130 bits, for the exact result of an operation
\* before it is rounded: five groups of 26 bits, the lowest first
Limb(W, j) == IF j >= 1 /\ j <= 5 THEN W[j] ELSE 0

\* W * 2^(26 * q + r) and W \div 2^(26 * q + r), from group i on
RECURSIVE ShlFrom(_, _, _, _)
ShlFrom(W, q, r, i) ==
    IF i > 5 THEN <<>>
    ELSE <<(Limb(W, i - q) % 2^(26 - r)) * 2^r
              + Limb(W, i - q - 1) \div 2^(26 - r)>> \o ShlFrom(W, q, r, i + 1)

RECURSIVE ShrFrom(_, _, _, _)
ShrFrom(W, q, r, i) ==
    IF i > 5 THEN <<>>
    ELSE <<Limb(W, i + q) \div 2^r
              + (Limb(W, i + q + 1) % 2^r) * 2^(26 - r)>> \o ShrFrom(W, q, r, i + 1)

\* W * 2^k and W \div 2^k
Shl(W, k) == ShlFrom(W, k \div 26, k % 26, 1)
Shr(W, k) == ShrFrom(W, k \div 26, k % 26, 1)

\* The groups of c carried to 0 .. 2^26 - 1
Carry(c) ==
    LET t1 == c[1]
        t2 == c[2] + t1 \div Two26
        t3 == c[3] + t2 \div Two26
        t4 == c[4] + t3 \div Two26
        t5 == c[5] + t4 \div Two26
    IN <<t1 % Two26, t2 % Two26, t3 % Two26, t4 % Two26, t5 % Two26>>

\* The number of bits of x, and of W
RECURSIVE Bits(_)
Bits(x) ==
    IF x >= 65536 THEN 16 + Bits(x \div 65536)
    ELSE IF x >= 256 THEN 8 + Bits(x \div 256)
    ELSE IF x >= 16 THEN 4 + Bits(x \div 16)
    ELSE IF x >= 4 THEN 2 + Bits(x \div 4)
    ELSE IF x >= 2 THEN 2 ELSE x

RECURSIVE BitLenFrom(_, _)
BitLenFrom(W, j) ==
    IF j = 0 THEN 0
    ELSE IF W[j] # 0 THEN 26 * (j - 1) + Bits(W[j])
    ELSE BitLenFrom(W, j - 1)

BitLen(W) == BitLenFrom(W, 5)

\* The 53 bits of a double as a whole number
Mantissa(d) == <<d.lo, d.hi, 1, 0, 0>>

\* The double s * (W + f) * 2^scale rounded to 53 bits, where 0 < f < 1
\* when sticky and f = 0 otherwise: to the nearest double, halves to the
\* even one ("nearest"), towards zero ("down") or away from it ("up")
Rounded(s, W, scale, sticky, mode) ==
    LET \* the double of exponent e whose bits after the leading one are hi
        \* and lo, one step farther from zero when up
        placed(e, hi, lo, up) ==
            IF ~up THEN [s |-> s, e |-> e, hi |-> hi, lo |-> lo]
            ELSE IF lo + 1 < Two26 THEN [s |-> s, e |-> e, hi |-> hi, lo |-> lo + 1]
            ELSE IF hi + 1 < Two26 THEN [s |-> s, e |-> e, hi |-> hi + 1, lo |-> 0]
            ELSE [s |-> s, e |-> e + 1, hi |-> 0, lo |-> 0]
        \* h holds the 54 leading bits of the n of W, the last of them the
        \* first bit dropped; rest tells whether anything follows it
        cut(n, h, rest) ==
            placed(scale + n - 1,
                   h[2] \div 2 + (h[3] % 2) * 33554432,
                   h[1] \div 2 + (h[2] % 2) * 33554432,
                   IF mode = "nearest"
                   THEN (h[1] % 2) = 1 /\ (rest \/ ((h[1] \div 2) % 2) = 1)
                   ELSE IF mode = "up" THEN (h[1] % 2) = 1 \/ rest
                   ELSE FALSE)
        leading(n, h) == cut(n, h, sticky \/ W # Shl(h, n - 54))
        whole(n, m) == [s |-> s, e |-> scale + n - 1, hi |-> m[2], lo |-> m[1]]
        sized(n) ==
            IF n = 0 THEN Zero
            ELSE IF n <= 53 THEN whole(n, Shl(W, 53 - n))
            ELSE leading(n, Shr(W, n - 54))
    IN sized(BitLen(W))

\* The double of the integer n
num(n) ==
    LET a == IF n < 0 THEN 0 - n ELSE n
    IN Rounded(IF n < 0 THEN 0 - 1 ELSE 1, <<a % Two26, a \div Two26, 0, 0, 0>>,
               0, FALSE, "nearest")

\* -1, 0 or 1 as a is below, equal to or above b
MagCompare(a, b) ==
    IF a.s = 0 \/ b.s = 0
    THEN (IF a.s = 0 THEN 0 ELSE 1) - (IF b.s = 0 THEN 0 ELSE 1)
    ELSE IF a.e # b.e THEN (IF a.e > b.e THEN 1 ELSE 0 - 1)
    ELSE IF a.hi # b.hi THEN (IF a.hi > b.hi THEN 1 ELSE 0 - 1)
    ELSE IF a.lo # b.lo THEN (IF a.lo > b.lo THEN 1 ELSE 0 - 1)
    ELSE 0

Compare(a, b) ==
    IF a.s # b.s THEN (IF a.s > b.s THEN 1 ELSE 0 - 1)
    ELSE a.s * MagCompare(a, b)

less(a, b) == Compare(a, b) < 0
atMost(a, b) == Compare(a, b) <= 0

neg(a) == [a EXCEPT !.s = 0 - @]
Math_abs(a) == [a EXCEPT !.s = @ * @]
Math_min(a, b) == IF less(b, a) THEN b ELSE a
Math_max(a, b) == IF less(a, b) THEN b ELSE a

\* a + b
plus(a, b) ==
    LET \* x + y for x and y not zero and |x| >= |y|; A is the bits of x
        \* at the scale of those of y, t is 1 when the signs agree, else -1
        sum(x, y, A, t) ==
            Rounded(x.s,
                    Carry(<<A[1] + t * y.lo, A[2] + t * y.hi, A[3] + t, A[4], A[5]>>),
                    y.e - 52, FALSE, "nearest")
        ordered(x, y) ==
            IF x.e - y.e > 64 THEN x
            ELSE sum(x, y, Shl(Mantissa(x), x.e - y.e), x.s * y.s)
        larger(first) == ordered(IF first THEN a ELSE b, IF first THEN b ELSE a)
    IN IF a.s = 0 THEN b
       ELSE IF b.s = 0 THEN a
       ELSE larger(MagCompare(a, b) >= 0)

minus(a, b) == plus(a, neg(b))

\* Numbers in groups of 13 bits, the highest first
RECURSIVE NormFrom(_, _, _)
NormFrom(c, k, carry) ==
    LET t == c[k] + carry
    IN IF k = 1 THEN <<t>>
       ELSE Append(NormFrom(c, k - 1, t \div Two13), t % Two13)

Norm(c) == NormFrom(c, Len(c), 0)

\* The ten groups of 13 bits of W, and the whole number of ten such groups
Split(W) ==
    <<W[5] \div Two13, W[5] % Two13, W[4] \div Two13, W[4] % Two13,
      W[3] \div Two13, W[3] % Two13, W[2] \div Two13, W[2] % Two13,
      W[1] \div Two13, W[1] % Two13>>

Join(f) ==
    <<f[10] + f[9] * Two13, f[8] + f[7] * Two13, f[6] + f[5] * Two13,
      f[4] + f[3] * Two13, f[2] + f[1] * Two13>>

\* The sum of the products a[i] * b[k + 1 - i] from i on: group k of the
\* product of a and b, before the carries
RECURSIVE Col(_, _, _, _)
Col(a, b, k, i) ==
    IF i > k \/ i > Len(a) THEN 0
    ELSE (IF k + 1 - i <= Len(b) THEN a[i] * b[k + 1 - i] ELSE 0)
            + Col(a, b, k, i + 1)

\* The 53 bits of a double in five groups of 13 bits
Groups(d) == <<1, d.hi \div Two13, d.hi % Two13, d.lo \div Two13, d.lo % Two13>>

\* a * b
times(a, b) ==
    LET product(x, y) ==
            Join(Norm([k \in 1..10 |-> IF k = 1 THEN 0 ELSE Col(x, y, k - 1, 1)]))
    IN IF a.s = 0 \/ b.s = 0 THEN Zero
       ELSE Rounded(a.s * b.s, product(Groups(a), Groups(b)), a.e + b.e - 104,
                    FALSE, "nearest")

\* The groups of a divided by the integer d, followed by the remainder
RECURSIVE DivFrom(_, _, _, _)
DivFrom(a, d, k, rem) ==
    IF k > Len(a) THEN <<rem>>
    ELSE LET t == rem * Two13 + a[k]
         IN <<t \div d>> \o DivFrom(a, d, k + 1, t % d)

\* a / n for an integer n, 0 < n < 2^18
over(a, n) ==
    LET quotient(q) == Rounded(a.s, Join(q), a.e - 116, q[11] # 0, "nearest")
    IN IF a.s = 0 THEN Zero
       ELSE quotient(DivFrom(Split(Shl(Mantissa(a), 64)), n, 1, 0))

\* The double nearest to n / d
ratio(n, d) == over(num(n), d)

\* Math.round(y) as an integer: the nearest integer, halves upwards
Math_round(y) ==
    LET \* t is |y| in halves without its fraction, exact when it had none
        nearest(t, exact) ==
            IF y.s > 0 THEN (t + 1) \div 2
            ELSE IF exact THEN 0 - (t \div 2)
            ELSE 0 - ((t + 1) \div 2)
        halves(T) == nearest(T[1] + Two26 * T[2], Mantissa(y) = Shl(T, 51 - y.e))
    IN IF y.s = 0 \/ 52 - y.e > 130 THEN 0
       ELSE halves(Shr(Mantissa(y), 51 - y.e))

\* Fixed-point numbers for the power series: Limbs groups of 13 bits, the
\* first of them the integer part
Limbs == 10

Mul(a, b) == SubSeq(Norm([k \in 1..(Limbs + 1) |-> Col(a, b, k, 1)]), 1, Limbs)
Sub(a, b) == Norm([k \in 1..Limbs |-> a[k] - b[k]])
Add(a, b) == Norm([k \in 1..Limbs |-> a[k] + b[k]])
DivSmall(a, d) == SubSeq(DivFrom(a, d, 1, 0), 1, Len(a))

One == <<1, 0, 0, 0, 0, 0, 0, 0, 0, 0>>
Nought == <<0, 0, 0, 0, 0, 0, 0, 0, 0, 0>>

\* The power series in u = x * x from term k on, summed until its terms
\* vanish: acc holds the last term added and the sum so far; the factorial
\* grows by (2k - 1 + odd) * (2k + odd)
RECURSIVE Series(_, _, _, _)
Series(u, acc, k, odd) ==
    LET added(next) ==
            Series(u, [term |-> next,
                       sum |-> IF (k % 2) = 1 THEN Sub(acc.sum, next)
                               ELSE Add(acc.sum, next)],
                   k + 1, odd)
    IN IF acc.term = Nought THEN acc.sum
       ELSE added(DivSmall(Mul(acc.term, u), (2 * k - 1 + odd) * (2 * k + odd)))

\* |x| as a fixed-point number, for a double x with 2^-26 <= |x| < 1
Fixed(x) == Split(Shl(Mantissa(x), 65 + x.e))

\* The double next to d towards zero, d not zero
pred(d) ==
    IF d.hi = 0 /\ d.lo = 0
    THEN [d EXCEPT !.e = @ - 1, !.hi = Two26 - 1, !.lo = Two26 - 1]
    ELSE IF d.lo = 0 THEN [d EXCEPT !.hi = @ - 1, !.lo = Two26 - 1]
    ELSE [d EXCEPT !.lo = @ - 1]

\* Math.cos(x) and Math.sin(x) for |x| < 1.  The language leaves the last
\* bit of the two functions to the engine's library: the value returned is
\* one of the two doubles that enclose the true value, the one nearer to
\* zero when up is FALSE and the one farther from it when up is TRUE.  The
\* values at 0 are exact and the same whatever up is.
Math_cos(x, up) ==
    LET series(f) ==
            Rounded(1, Join(Series(Mul(f, f), [term |-> One, sum |-> One], 1, 0)),
                    0 - 117, TRUE, IF up THEN "up" ELSE "down")
    IN IF x.s = 0 \/ (x.e < 0 - 26 /\ up) THEN num(1)
       ELSE IF x.e < 0 - 26 THEN pred(num(1))
       ELSE series(Fixed(x))

Math_sin(x, up) ==
    LET series(f) ==
            Rounded(x.s, Join(Series(Mul(f, f), [term |-> f, sum |-> f], 1, 1)),
                    0 - 117, TRUE, IF up THEN "up" ELSE "down")
    IN IF x.s = 0 THEN Zero
       ELSE IF x.e < 0 - 26 THEN (IF up THEN x ELSE pred(x))
       ELSE series(Fixed(x))

\* Math.PI, the double 0x400921FB54442D18
Math_PI == [s |-> 1, e |-> 1, hi |-> 38305493, lo |-> 4467992]

Half == ratio(1, 2)

----------------------------------------------------------------------------
(* MatchmakingService *)

\* Faulty variant of expandedRange: the radius grows by 100 every 10 s
expandedRangeFast(waitTime) ==
    Min(RATING_RANGE_INITIAL + (waitTime \div RATING_EXPAND_INTERVAL) * 100,
        RATING_RANGE_MAX)

expandedRange(waitTime) ==
    Min(RATING_RANGE_INITIAL + (waitTime \div RATING_EXPAND_INTERVAL) * 50,
        RATING_RANGE_MAX)

\* The loop of findRankedOpponent from position i on; bestMatch is an index
\* into rq (0 is null, whose bestDiff is Infinity).  reads are the values of
\* Date.now() in the order the call reads them: reads[1] at line 54, and
\* reads[k] the next one to be read at line 73, which is reached only for an
\* opponent within the joiner's range.
RECURSIVE scanRanked(_, _, _, _, _, _, _)
scanRanked(rq, player, reads, k, i, bestMatch, bestDiff) ==
    IF i > Len(rq) THEN bestMatch
    ELSE LET opponent == rq[i]
             ratingDiff == Abs(opponent.rating - player.rating)
         IN IF opponent.wallet = player.wallet
            THEN scanRanked(rq, player, reads, k, i + 1, bestMatch, bestDiff)
            ELSE IF ratingDiff <= expandedRange(reads[1] - player.queuedAt)
                 THEN IF /\ ratingDiff <= expandedRange(reads[k] - opponent.queuedAt)
                         /\ (bestMatch = 0 \/ ratingDiff < bestDiff)
                      THEN scanRanked(rq, player, reads, k + 1, i + 1, i, ratingDiff)
                      ELSE scanRanked(rq, player, reads, k + 1, i + 1, bestMatch,
                                      bestDiff)
                 ELSE scanRanked(rq, player, reads, k, i + 1, bestMatch, bestDiff)

\* Faulty variant of findRankedOpponent: on a tie the last entry wins
findRankedOpponentLastTie(rq, player, reads) ==
    LET gap(i) == Abs(rq[i].rating - player.rating)
        near == {i \in 1..Len(rq) :
                    /\ rq[i].wallet # player.wallet
                    /\ gap(i) <= expandedRange(reads[1] - player.queuedAt)}
        read(i) == reads[1 + Cardinality({j \in near : j <= i})]
        C == {i \in near : gap(i) <= expandedRange(read(i) - rq[i].queuedAt)}
    IN IF C = {} THEN 0
       ELSE CHOOSE i \in C : \A j \in C :
              \/ gap(i) < gap(j)
              \/ gap(i) = gap(j) /\ i >= j

\* findRankedOpponent: the index in rq of the entry returned, 0 for null.
\* An empty queue returns before the clock is read.
findRankedOpponent(rq, player, reads) ==
    IF Len(rq) = 0 THEN 0 ELSE scanRanked(rq, player, reads, 2, 1, 0, 0)

\* Faulty variant of addToRankedQueue: the joiner is stored although it was paired
addToRankedQueueStoreJoiner(rq, player, reads) ==
    LET index == findRankedOpponent(rq, player, reads)
    IN IF index # 0
       THEN [queue |-> Append(RemoveAt(rq, index), player), matched |-> <<rq[index]>>]
       ELSE [queue |-> Append(rq, player), matched |-> <<>>]

\* Faulty variant of addToRankedQueue: the opponent is returned but left stored
addToRankedQueueKeep(rq, player, reads) ==
    LET index == findRankedOpponent(rq, player, reads)
    IN IF index # 0
       THEN [queue |-> rq, matched |-> <<rq[index]>>]
       ELSE [queue |-> Append(rq, player), matched |-> <<>>]

\* addToRankedQueue: the queue afterwards and the value returned
\* (<<>> is null, <<q>> the opponent q)
addToRankedQueue(rq, player, reads) ==
    LET index == findRankedOpponent(rq, player, reads)
    IN IF index # 0
       THEN [queue |-> RemoveAt(rq, index), matched |-> <<rq[index]>>]
       ELSE [queue |-> Append(rq, player), matched |-> <<>>]

\* Faulty variant of addToUnrankedQueue: takes the first waiting entry, whoever it is
addToUnrankedQueueAny(uq, player) ==
    IF Len(uq) > 0
    THEN [queue |-> Tail(uq), matched |-> <<Head(uq)>>]
    ELSE [queue |-> Append(uq, player), matched |-> <<>>]

\* Faulty variant of addToUnrankedQueue: the opponent is the waiting entry of
\* another wallet that is closest in rating
addToUnrankedQueueClosest(uq, player) ==
    LET gap(i) == Abs(uq[i].rating - player.rating)
        others == {i \in 1..Len(uq) : uq[i].wallet # player.wallet}
        index == FindIndex({i \in others : \A j \in others : gap(i) <= gap(j)})
    IN IF index # 0
       THEN [queue |-> RemoveAt(uq, index), matched |-> <<uq[index]>>]
       ELSE [queue |-> Append(uq, player), matched |-> <<>>]

addToUnrankedQueue(uq, player) ==
    LET index == IF Len(uq) > 0
                 THEN FindIndex({i \in 1..Len(uq) : uq[i].wallet # player.wallet})
                 ELSE 0
    IN IF index # 0
       THEN [queue |-> RemoveAt(uq, index), matched |-> <<uq[index]>>]
       ELSE [queue |-> Append(uq, player), matched |-> <<>>]

\* removeFromQueue: both queues afterwards and the boolean returned
removeFromQueue(rq, uq, socketId) ==
    LET rankedIndex == FindIndex({i \in 1..Len(rq) : rq[i].socketId = socketId})
        unrankedIndex == FindIndex({i \in 1..Len(uq) : uq[i].socketId = socketId})
    IN IF rankedIndex # 0
       THEN [ranked |-> RemoveAt(rq, rankedIndex), unranked |-> uq,
             removed |-> <<rq[rankedIndex]>>, result |-> TRUE]
       ELSE IF unrankedIndex # 0
            THEN [ranked |-> rq, unranked |-> RemoveAt(uq, unrankedIndex),
                  removed |-> <<uq[unrankedIndex]>>, result |-> TRUE]
            ELSE [ranked |-> rq, unranked |-> uq,
                  removed |-> <<>>, result |-> FALSE]

\* Faulty variant of cleanupExpiredPlayers: an entry is dropped as soon as
\* it has waited the timeout
cleanupExpiredPlayersAtTimeout(rq, uq, t) ==
    LET keep(p) == ~(t - p.queuedAt >= MATCH_TIMEOUT)
        drop(p) == t - p.queuedAt >= MATCH_TIMEOUT
    IN [ranked |-> SelectSeq(rq, keep), unranked |-> SelectSeq(uq, keep),
        removed |-> SelectSeq(rq, drop) \o SelectSeq(uq, drop)]

\* Faulty variant of cleanupExpiredPlayers: the unranked queue is not cleaned
cleanupExpiredPlayersRankedOnly(rq, uq, t) ==
    LET keep(p) == ~(t - p.queuedAt > MATCH_TIMEOUT)
        drop(p) == t - p.queuedAt > MATCH_TIMEOUT
    IN [ranked |-> SelectSeq(rq, keep), unranked |-> uq,
        removed |-> SelectSeq(rq, drop)]

\* cleanupExpiredPlayers: both queues afterwards and the entries reported
\* to onTimeout, in the order of the calls
cleanupExpiredPlayers(rq, uq, t) ==
    LET keep(p) == ~(t - p.queuedAt > MATCH_TIMEOUT)
        drop(p) == t - p.queuedAt > MATCH_TIMEOUT
    IN [ranked |-> SelectSeq(rq, keep), unranked |-> SelectSeq(uq, keep),
        removed |-> SelectSeq(rq, drop) \o SelectSeq(uq, drop)]

----------------------------------------------------------------------------
(* Bookkeeping of what the queue operations returned *)

NoPlayer == [socketId |-> "none", wallet |-> "none", queueType |-> "none",
             rating |-> 0, queuedAt |-> 0, eid |-> 0]

NoRet == [op |-> "none", at |-> 0, reads |-> <<>>, player |-> NoPlayer,
          before |-> <<>>, beforeU |-> <<>>, matched |-> <<>>, removed |-> <<>>,
          result |-> FALSE]

Bump(f, entries) ==
    [e \in DOMAIN f |->
        f[e] + Cardinality({i \in 1..Len(entries) : entries[i].eid = e})]

NoEv == [op |-> "none", matchId |-> "none", handle |-> 0, outcome |-> "none",
         socketId |-> "none", paddleY |-> Zero, hit |-> "none"]

\* new GameManager(): three empty maps, no timer; ids is the supply of match
\* ids and goals the budget of points
GConstructed(ids, goals) ==
    /\ matches = EmptyMap
    /\ gameLoops = EmptyMap
    /\ previousStates = EmptyMap
    /\ intervals = EmptyMap
    /\ nextHandle = 1
    /\ freeIds = ids
    /\ goalsLeft = goals
    /\ endCalls = [m \in MatchIds |-> 0]
    /\ lateDelta = {}
    /\ ev = NoEv
    /\ fired = {}
    /\ emitted = "none"
    /\ received = EmptyMap
    /\ sinceServe = 0
    /\ movesLeft = 0
    /\ matchStatus = [m \in MatchIds |-> "none"]

\* No call of the persistence layer is in flight
NoCalls == [updates |-> {}, records |-> {}]

\* index.ts lines 79-85: the maps of the server start empty; joins is the
\* budget of join_queue events
SConstructed(joins) ==
    /\ joinsLeft = joins
    /\ dropped = {}
    /\ playerData = EmptyMap
    /\ loading = [w \in Wallets |-> 0]
    /\ connected = Sockets
    /\ activeMatches = <<>>
    /\ pendingStarts = {}
    /\ cancelled = {}
    /\ resolved = [m \in MatchIds |-> <<>>]
    /\ persisting = NoCalls

----------------------------------------------------------------------------
(* The queue service driven through its public methods *)

\* No call of the rating engine is under study
NoElo == [winnerRating |-> 0, loserRating |-> 0, winnerPlacementGames |-> 0,
          loserPlacementGames |-> 0, winnerChange |-> 0, loserChange |-> 0,
          returned |-> FALSE]

QInit ==
    /\ now = 0
    /\ rankedQueue = <<>>
    /\ unrankedQueue = <<>>
    /\ nextEid = 1
    /\ advances = 0
    /\ ret = NoRet
    /\ matchCount = [e \in Eids |-> 0]
    /\ removeCount = [e \in Eids |-> 0]
    /\ eloCall = NoElo

QOnlyInit == QInit /\ GConstructed({}, 0) /\ SConstructed(0)

\* The number of times a call of addToQueue on ranked queue rq may read the
\* clock: once at line 54 and once at line 73 for each waiting entry; never
\* for an unranked joiner or when the queue is empty
ReadsOfCall(qt, rq) == IF qt = "ranked" /\ Len(rq) > 0 THEN Len(rq) + 1 ELSE 0

\* What n successive reads of a clock that shows t can give: the clock does
\* not go back, and it steps by ClockDrift before one of the reads or not at
\* all
ClockReads(t, n) ==
    IF n = 0 THEN {<<>>}
    ELSE {[i \in 1..n |-> IF i < p THEN t ELSE t + ClockDrift] : p \in 1..(n + 1)}

\* n reads of a clock that shows t and does not step
Steady(t, n) == [i \in 1..n |-> t]

\* addToQueue(player), lines 17-23.  The single caller stamps queuedAt with
\* Date.now(); the method itself accepts any stamp, here also the epoch of
\* the run, so that a joiner with an expanded radius occurs.  reads are the
\* values the clock shows to the reads of the call; the call returns when
\* the clock shows the last of them.
Enqueue(s, w, qt, r, qa, reads) ==
    /\ nextEid <= MaxEntries
    /\ LET player == [socketId |-> s, wallet |-> w, queueType |-> qt,
                      rating |-> r, queuedAt |-> qa, eid |-> nextEid]
           res == IF qt = "ranked"
                  THEN addToRankedQueue(rankedQueue, player, reads)
                  ELSE addToUnrankedQueue(unrankedQueue, player)
           end == IF reads = <<>> THEN now ELSE reads[Len(reads)]
       IN /\ rankedQueue' = IF qt = "ranked" THEN res.queue ELSE rankedQueue
          /\ unrankedQueue' = IF qt = "ranked" THEN unrankedQueue ELSE res.queue
          /\ now' = end
          /\ ret' = [op |-> "enqueue", at |-> end, reads |-> reads,
                     player |-> player,
                     before |-> rankedQueue, beforeU |-> unrankedQueue,
                     matched |-> res.matched, removed |-> <<>>,
                     result |-> FALSE]
          /\ matchCount' = Bump(matchCount, res.matched)
    /\ nextEid' = nextEid + 1
    /\ UNCHANGED <<eloCall, advances, removeCount, gvars, svars>>

Dequeue(s) ==
    /\ LET res == removeFromQueue(rankedQueue, unrankedQueue, s)
       IN /\ rankedQueue' = res.ranked
          /\ unrankedQueue' = res.unranked
          /\ ret' = [op |-> "dequeue", at |-> now, reads |-> <<>>,
                     player |-> [NoPlayer EXCEPT !.socketId = s],
                     before |-> rankedQueue, beforeU |-> unrankedQueue,
                     matched |-> <<>>, removed |-> res.removed,
                     result |-> res.result]
          /\ removeCount' = Bump(removeCount, res.removed)
    /\ UNCHANGED <<eloCall, now, nextEid, advances, matchCount, gvars, svars>>

Expire ==
    /\ LET res == cleanupExpiredPlayers(rankedQueue, unrankedQueue, now)
       IN /\ rankedQueue' = res.ranked
          /\ unrankedQueue' = res.unranked
          /\ ret' = [op |-> "expire", at |-> now, reads |-> <<now>>,
                     player |-> NoPlayer,
                     before |-> rankedQueue, beforeU |-> unrankedQueue,
                     matched |-> <<>>, removed |-> res.removed,
                     result |-> FALSE]
          /\ removeCount' = Bump(removeCount, res.removed)
    /\ UNCHANGED <<eloCall, now, nextEid, advances, matchCount, gvars, svars>>

Advance(dt) ==
    /\ advances < MaxAdvances
    /\ now' = now + dt
    /\ advances' = advances + 1
    /\ UNCHANGED <<eloCall, rankedQueue, unrankedQueue, nextEid, ret, matchCount,
                   removeCount, gvars, svars>>

QNext ==
    \/ \E w \in Wallets, r \in Ratings, qa \in {now, 0} :
          \E reads \in ClockReads(now, ReadsOfCall("ranked", rankedQueue)) :
             Enqueue(SocketOf(w), w, "ranked", r, qa, reads)
    \/ \E w \in Wallets : Enqueue(SocketOf(w), w, "unranked", 1000, now, <<>>)
    \/ \E s \in Sockets : Dequeue(s)
    \/ Expire
    \/ \E dt \in ClockSteps : Advance(dt)

SpecQueue == QOnlyInit /\ [][QNext]_vars

\* The queue on a clock of TickMs steps: entries with the ratings of
\* WaitRatings, stamped with the time of the call or with the start of the
\* clock, so that search radii grow and entries reach the timeout
TickMs == 20000

\* The rating the server has cached for a wallet when it joins
WaitRatings(w) == IF w = "w1" THEN {1000} ELSE {1040, 1300}

Elapse ==
    /\ now < MaxTicks * TickMs
    /\ now' = now + TickMs
    /\ UNCHANGED <<eloCall, rankedQueue, unrankedQueue, nextEid, advances, ret,
                   matchCount, removeCount, gvars, svars>>

\* The ranked queue alone, to follow the search radii
WaitNext ==
    \/ \E w \in Wallets : \E r \in WaitRatings(w), qa \in {now, 0} :
          \E reads \in ClockReads(now, ReadsOfCall("ranked", rankedQueue)) :
             Enqueue(SocketOf(w), w, "ranked", r, qa, reads)
    \/ \E s \in Sockets : Dequeue(s)
    \/ Expire
    \/ Elapse

SpecWait == QOnlyInit /\ [][WaitNext]_vars

\* Both queues with every entry stamped as join_queue stamps it (index.ts
\* line 400), to follow entries up to the timeout
StampedNext ==
    \/ \E w \in Wallets :
          \E reads \in ClockReads(now, ReadsOfCall("ranked", rankedQueue)) :
             Enqueue(SocketOf(w), w, "ranked", 1000, now, reads)
    \/ \E w \in Wallets : \E r \in WaitRatings(w) :
          Enqueue(SocketOf(w), w, "unranked", r, now, <<>>)
    \/ \E s \in Sockets : Dequeue(s)
    \/ Expire
    \/ Elapse

SpecStamped == QOnlyInit /\ [][StampedNext]_vars

\* The ranked queue as the join_queue handler feeds it: three connections,
\* each with its own wallet, join at the rating the server has cached for
\* them (index.ts line 399) and are stamped with the time of the call (line
\* 400); the clock may step while findRankedOpponent reads it
RankedJoiners ==
    {[socketId |-> "s1", wallet |-> "w1"], [socketId |-> "s2", wallet |-> "w2"],
     [socketId |-> "s3", wallet |-> "w3"]}

JoinRatings == {1000, 1060, 1070, 1120}

ServedNext ==
    \/ \E j \in RankedJoiners, r \in JoinRatings :
          \E reads \in ClockReads(now, ReadsOfCall("ranked", rankedQueue)) :
             Enqueue(j.socketId, j.wallet, "ranked", r, now, reads)
    \/ \E j \in RankedJoiners : Dequeue(j.socketId)
    \/ Expire
    \/ \E dt \in ClockSteps : Advance(dt)

SpecServed == QOnlyInit /\ [][ServedNext]_vars

\* Both queues under the cleanup timer of index.ts lines 698-703, which
\* calls cleanupExpiredPlayers again and again while time passes
TimerNext ==
    \/ \E w \in Wallets, qt \in QueueTypes :
          \E reads \in ClockReads(now, ReadsOfCall(qt, rankedQueue)) :
             Enqueue(SocketOf(w), w, qt, 1000, now, reads)
    \/ \E s \in Sockets : Dequeue(s)
    \/ Expire
    \/ Elapse

SpecTimer ==
    QOnlyInit /\ [][TimerNext]_vars /\ WF_vars(Expire) /\ WF_vars(Elapse)

----------------------------------------------------------------------------
(* Rating engine (utils/elo) and the constants of game/types it imports *)

K_FACTOR_STANDARD == 32
K_FACTOR_PLACEMENT == 64
PLACEMENT_GAMES == 10
DEFAULT_RATING == 1000

\* Math.round(K * (1 - 1 / (1 + 10^(D / 400)))) for D = loserRating -
\* winnerRating rises by one at each of these values of D (K = 32, K = 64);
\* Math.round(K * (0 - 1 / (1 + 10^(-D / 400)))) falls by one at the same
\* values.  Computed from the expressions of lines 14, 41 and 42 in IEEE
\* double arithmetic for every integer D in -3000..3000.
EloSteps32 ==
    <<-719, -523, -428, -364, -314, -273, -237, -205, -176, -149, -124,
      -100, -77, -54, -32, -10, 11, 33, 55, 78, 101, 125, 150, 177, 206,
      238, 274, 315, 365, 429, 524, 720>>

EloSteps64 ==
    <<-841, -647, -556, -495, -448, -410, -378, -350, -325, -303, -282,
      -263, -245, -229, -213, -198, -183, -169, -156, -143, -130, -118,
      -106, -94, -82, -71, -60, -49, -38, -27, -16, -5, 6, 17, 28, 39,
      50, 61, 72, 83, 95, 107, 119, 131, 144, 157, 170, 184, 199, 214,
      230, 246, 264, 283, 304, 326, 351, 379, 411, 449, 496, 557, 648,
      842>>

RoundedShare(K, D) ==
    LET steps == IF K = K_FACTOR_STANDARD THEN EloSteps32 ELSE EloSteps64
    IN Cardinality({n \in 1..Len(steps) : D >= steps[n]})

\* Faulty variant of calculateEloChange: the rounded changes are returned as
\* they are
calculateEloChangeNoFloor(winnerRating, loserRating, winnerPlacementGames, loserPlacementGames) ==
    LET winnerK == IF winnerPlacementGames < PLACEMENT_GAMES
                   THEN K_FACTOR_PLACEMENT ELSE K_FACTOR_STANDARD
        loserK == IF loserPlacementGames < PLACEMENT_GAMES
                  THEN K_FACTOR_PLACEMENT ELSE K_FACTOR_STANDARD
    IN [winnerChange |-> RoundedShare(winnerK, loserRating - winnerRating),
        loserChange |-> -RoundedShare(loserK, loserRating - winnerRating)]

calculateEloChange(winnerRating, loserRating, winnerPlacementGames, loserPlacementGames) ==
    LET winnerK == IF winnerPlacementGames < PLACEMENT_GAMES
                   THEN K_FACTOR_PLACEMENT ELSE K_FACTOR_STANDARD
        loserK == IF loserPlacementGames < PLACEMENT_GAMES
                  THEN K_FACTOR_PLACEMENT ELSE K_FACTOR_STANDARD
        winnerChange == RoundedShare(winnerK, loserRating - winnerRating)
        loserChange == -RoundedShare(loserK, loserRating - winnerRating)
    IN [winnerChange |-> Max(winnerChange, 1),
        loserChange |-> Min(loserChange, -1)]

\* Ratings the engine is called with: a grid from 0 up, and 40 above each
\* point of it
RatingStep == 500
EloRatings == {k * RatingStep + o : k \in 0..MaxRatingSteps, o \in {0, 40}}

\* Placement counts the engine is called with: none, one short of the
\* threshold, the threshold
EloPlacements == {0, PLACEMENT_GAMES - 1, PLACEMENT_GAMES}

\* A call of calculateEloChange about to be made
EloInit ==
    /\ now = 0
    /\ rankedQueue = <<>>
    /\ unrankedQueue = <<>>
    /\ nextEid = 1
    /\ advances = 0
    /\ ret = NoRet
    /\ matchCount = [e \in Eids |-> 0]
    /\ removeCount = [e \in Eids |-> 0]
    /\ GConstructed({}, 0)
    /\ SConstructed(0)
    /\ \E wr \in EloRatings, lr \in EloRatings,
          wp \in EloPlacements, lp \in EloPlacements :
          eloCall = [NoElo EXCEPT !.winnerRating = wr, !.loserRating = lr,
                                  !.winnerPlacementGames = wp,
                                  !.loserPlacementGames = lp]

\* calculateEloChange returns
EloReturn ==
    /\ ~eloCall.returned
    /\ LET changes == calculateEloChange(eloCall.winnerRating, eloCall.loserRating,
                                         eloCall.winnerPlacementGames,
                                         eloCall.loserPlacementGames)
       IN eloCall' = [eloCall EXCEPT !.winnerChange = changes.winnerChange,
                                     !.loserChange = changes.loserChange,
                                     !.returned = TRUE]
    /\ UNCHANGED <<now, rankedQueue, unrankedQueue, nextEid, advances, ret,
                   matchCount, removeCount, gvars, svars>>

EloNext == EloReturn

SpecElo == EloInit /\ [][EloNext]_vars

----------------------------------------------------------------------------
(* GameManager *)

CANVAS_WIDTH == 800
CANVAS_HEIGHT == 450
BALL_SIZE == 12
PADDLE_WIDTH == 10
PADDLE_HEIGHT == 80
PADDLE_OFFSET == 30
BALL_SPEED_INITIAL == 3
BALL_SPEED_MAX == 12

\* BALL_SPEED_INCREASE = 0.3: the double nearest to three tenths
BALL_SPEED_INCREASE == ratio(3, 10)
SCORE_TO_WIN == 11

\* The values the simulation takes from the constants, as doubles: the
\* centre of the canvas (CANVAS_WIDTH / 2, CANVAS_HEIGHT / 2), the first
\* position of a paddle (CANVAS_HEIGHT / 2 - PADDLE_HEIGHT / 2) and its
\* highest one (CANVAS_HEIGHT - PADDLE_HEIGHT)
CentreX == ratio(CANVAS_WIDTH, 2)
CentreY == ratio(CANVAS_HEIGHT, 2)
FirstPaddleY == minus(ratio(CANVAS_HEIGHT, 2), ratio(PADDLE_HEIGHT, 2))
MaxPaddleY == num(CANVAS_HEIGHT - PADDLE_HEIGHT)

NullPlayer == [socketId |-> "null", wallet |-> "null", rating |-> 0]

\* initializeGameState, the score and paddle fields, which is what the match
\* lifecycle reads.  The ball and countdown fields are added by
\* initializeBall in the specification of the simulation.
initializeGameState ==
    [player1Score |-> 0, player2Score |-> 0,
     player1PaddleY |-> FirstPaddleY,
     player2PaddleY |-> FirstPaddleY]

\* updateGameState, as far as the scores go: a call adds one point to one
\* side (lines 266-274, one branch of the if/else at most) or to none.  Which
\* of the three happens is decided by the ball, that is by Math.random and
\* the paddle inputs.
updateGameState(gs) ==
    {gs,
     [gs EXCEPT !.player2Score = @ + 1],
     [gs EXCEPT !.player1Score = @ + 1]}

\* The state of the GameManager and of the timers it owns, as one value
GM == [matches |-> matches, gameLoops |-> gameLoops,
       previousStates |-> previousStates, intervals |-> intervals,
       matchStatus |-> matchStatus]

createMatch(g, matchId, player1SocketId, player1Wallet, player1Rating, queueType) ==
    [g EXCEPT !.matchStatus[matchId] = "waiting",
              !.matches = Put(@, matchId,
        [id |-> matchId,
         player1 |-> [socketId |-> player1SocketId, wallet |-> player1Wallet,
                      rating |-> player1Rating],
         player2 |-> NullPlayer,
         queueType |-> queueType,
         gameState |-> initializeGameState,
         status |-> "waiting",
         winner |-> "null"])]

\* Faulty variant of joinMatch: any match in the table is joined
joinMatchAnyStatus(g, matchId, player2SocketId, player2Wallet, player2Rating) ==
    IF matchId \notin DOMAIN g.matches
    THEN g
    ELSE [g EXCEPT !.matches[matchId].player2 =
                        [socketId |-> player2SocketId, wallet |-> player2Wallet,
                         rating |-> player2Rating],
                   !.matches[matchId].status = "active",
                   !.matchStatus[matchId] = "active"]

joinMatch(g, matchId, player2SocketId, player2Wallet, player2Rating) ==
    IF \/ matchId \notin DOMAIN g.matches
       \/ g.matches[matchId].player2 # NullPlayer
       \/ g.matches[matchId].status # "waiting"
    THEN g
    ELSE [g EXCEPT !.matches[matchId].player2 =
                        [socketId |-> player2SocketId, wallet |-> player2Wallet,
                         rating |-> player2Rating],
                   !.matches[matchId].status = "active",
                   !.matchStatus[matchId] = "active"]

\* updatePaddle (lines 147-162): the paddle of a match in the table is set
\* to the position clamped to the canvas, whatever the match's status
\* Faulty variant of updatePaddle: the position is taken as it is sent
updatePaddleNoClamp(g, matchId, player, paddleY) ==
    IF matchId \notin DOMAIN g.matches
    THEN g
    ELSE IF player = 1
         THEN [g EXCEPT !.matches[matchId].gameState.player1PaddleY = paddleY]
         ELSE [g EXCEPT !.matches[matchId].gameState.player2PaddleY = paddleY]

updatePaddle(g, matchId, player, paddleY) ==
    IF matchId \notin DOMAIN g.matches
    THEN g
    ELSE LET y == Math_max(Zero, Math_min(MaxPaddleY, paddleY))
         IN IF player = 1
            THEN [g EXCEPT !.matches[matchId].gameState.player1PaddleY = y]
            ELSE [g EXCEPT !.matches[matchId].gameState.player2PaddleY = y]

\* Faulty variant of stopGameLoop: the handle is forgotten but the timer not cleared
stopGameLoopNoClear(g, matchId) ==
    IF matchId \in DOMAIN g.gameLoops
    THEN [g EXCEPT !.gameLoops = Del(@, matchId),
                   !.previousStates = Del(@, matchId)]
    ELSE g

stopGameLoop(g, matchId) ==
    IF matchId \in DOMAIN g.gameLoops
    THEN [g EXCEPT !.intervals = Del(@, g.gameLoops[matchId]),
                   !.gameLoops = Del(@, matchId),
                   !.previousStates = Del(@, matchId)]
    ELSE g

\* startGameLoop: setInterval returns the fresh handle h; the callback's
\* closure holds matchId and the caller's two sinks, of which the model
\* keeps what they captured (the queue class of the join_queue handler)
startGameLoop(g, matchId, h, sinks) ==
    [g EXCEPT !.intervals = Put(@, h, [matchId |-> matchId, sinks |-> sinks]),
              !.gameLoops = Put(@, matchId, h)]

\* Faulty variant of cancelMatch: the call returns without touching the match
\* Faulty variant of cancelMatch: the snapshots of all matches are dropped
cancelMatchAll(g, matchId) ==
    IF matchId \in DOMAIN g.matches
    THEN LET g1 == [g EXCEPT !.matches[matchId].status = "cancelled",
                             !.matchStatus[matchId] = "cancelled"]
             g2 == stopGameLoop(g1, matchId)
         IN [g2 EXCEPT !.matches = Del(@, matchId), !.previousStates = EmptyMap]
    ELSE g

cancelMatchKeep(g, matchId) ==
    g

cancelMatch(g, matchId) ==
    IF matchId \in DOMAIN g.matches
    THEN LET g1 == [g EXCEPT !.matches[matchId].status = "cancelled",
                             !.matchStatus[matchId] = "cancelled"]
             g2 == stopGameLoop(g1, matchId)
         IN [g2 EXCEPT !.matches = Del(@, matchId)]
    ELSE g

\* Faulty variant of tick: the winner is found but the loop is left running
tickNoStop(g, h, gs) ==
    LET matchId == g.intervals[h].matchId
    IN IF matchId \notin DOMAIN g.matches \/ g.matches[matchId].status # "active"
       THEN [g |-> stopGameLoop(g, matchId), outcome |-> "stale", winner |-> "null"]
       ELSE LET match == g.matches[matchId]
                g1 == [g EXCEPT !.matches[matchId].gameState = gs]
            IN IF gs.player1Score >= SCORE_TO_WIN
               THEN [g |-> [g1 EXCEPT !.matches[matchId].winner = match.player1.wallet,
                                      !.matches[matchId].status = "completed",
                                      !.matchStatus[matchId] = "completed"],
                     outcome |-> "end", winner |-> match.player1.wallet]
               ELSE IF gs.player2Score >= SCORE_TO_WIN
                    THEN [g |-> [g1 EXCEPT !.matches[matchId].winner = match.player2.wallet,
                                           !.matches[matchId].status = "completed",
                                      !.matchStatus[matchId] = "completed"],
                          outcome |-> "end", winner |-> match.player2.wallet]
                    ELSE [g |-> [g1 EXCEPT !.previousStates = Put(@, matchId, gs)],
                          outcome |-> "update", winner |-> "null"]

\* The interval callback of startGameLoop (lines 71-102) for the timer h,
\* where gs is what updateGameState makes of the match's game state.  The
\* result: the GameManager afterwards, which way the callback went ("stale":
\* lines 73-76, "end": a winner was found and onEnd is to be called, "update":
\* onUpdate is to be called with the delta), and the winner passed to onEnd.
tick(g, h, gs) ==
    LET matchId == g.intervals[h].matchId
    IN IF matchId \notin DOMAIN g.matches \/ g.matches[matchId].status # "active"
       THEN [g |-> stopGameLoop(g, matchId), outcome |-> "stale", winner |-> "null"]
       ELSE LET match == g.matches[matchId]
                g1 == [g EXCEPT !.matches[matchId].gameState = gs]
            IN IF gs.player1Score >= SCORE_TO_WIN
               THEN [g |-> stopGameLoop(
                             [g1 EXCEPT !.matches[matchId].winner = match.player1.wallet,
                                        !.matches[matchId].status = "completed",
                                      !.matchStatus[matchId] = "completed"],
                             matchId),
                     outcome |-> "end", winner |-> match.player1.wallet]
               ELSE IF gs.player2Score >= SCORE_TO_WIN
                    THEN [g |-> stopGameLoop(
                                  [g1 EXCEPT !.matches[matchId].winner = match.player2.wallet,
                                             !.matches[matchId].status = "completed",
                                      !.matchStatus[matchId] = "completed"],
                                  matchId),
                          outcome |-> "end", winner |-> match.player2.wallet]
                    ELSE [g |-> [g1 EXCEPT !.previousStates = Put(@, matchId, gs)],
                          outcome |-> "update", winner |-> "null"]

\* What updateGameState may make of the match of timer h within the budget
\* of points (the match's own state when the callback returns before it)
TickStates(h) ==
    LET matchId == intervals[h].matchId
    IN IF matchId \notin DOMAIN matches \/ matches[matchId].status # "active"
       THEN {initializeGameState}
       ELSE {gs \in updateGameState(matches[matchId].gameState) :
                gs = matches[matchId].gameState \/ goalsLeft > 0}

Scored(h, gs) ==
    LET matchId == intervals[h].matchId
    IN /\ matchId \in DOMAIN matches
       /\ matches[matchId].status = "active"
       /\ gs # matches[matchId].gameState

SetGM(g) ==
    /\ matches' = g.matches
    /\ gameLoops' = g.gameLoops
    /\ previousStates' = g.previousStates
    /\ intervals' = g.intervals
    /\ matchStatus' = g.matchStatus

----------------------------------------------------------------------------
(* The GameManager driven through its public methods, for one match id.     *)
(* The caller's sinks onUpdate and onEnd only count.                        *)

GmIds == {"m1"}

\* Paddle positions a caller passes: above the canvas and at its lower edge
PaddleYs == {num(0 - 10), num(CANVAS_HEIGHT)}

GInit == QInit /\ GConstructed(GmIds, 2 * SCORE_TO_WIN) /\ SConstructed(0)

GmCreate(matchId, qt) ==
    /\ matchId \in freeIds
    /\ freeIds' = freeIds \ {matchId}
    /\ SetGM(createMatch(GM, matchId, "s1", "w1", 1000, qt))
    /\ ev' = [NoEv EXCEPT !.op = "createMatch", !.matchId = matchId]
    /\ UNCHANGED <<qvars, svars, nextHandle, goalsLeft, endCalls, lateDelta, fired, emitted, received, sinceServe, movesLeft>>

GmJoin(matchId, w) ==
    /\ SetGM(joinMatch(GM, matchId, SocketOf(w), w, 1000))
    /\ ev' = [NoEv EXCEPT !.op = "joinMatch", !.matchId = matchId,
                          !.socketId = SocketOf(w),
                          !.outcome = IF joinMatch(GM, matchId, SocketOf(w), w, 1000) = GM
                                      THEN "null" ELSE "match"]
    /\ UNCHANGED <<qvars, svars, nextHandle, freeIds, goalsLeft, endCalls, lateDelta, fired, emitted, received, sinceServe, movesLeft>>

GmStart(matchId) ==
    /\ nextHandle <= MaxLoops
    /\ SetGM(startGameLoop(GM, matchId, nextHandle, [queueType |-> "none"]))
    /\ nextHandle' = nextHandle + 1
    /\ ev' = [NoEv EXCEPT !.op = "startGameLoop", !.matchId = matchId,
                          !.handle = nextHandle]
    /\ UNCHANGED <<qvars, svars, freeIds, goalsLeft, endCalls, lateDelta, fired, emitted, received, sinceServe, movesLeft>>

GmTick(h) ==
    /\ h \in DOMAIN intervals
    /\ \E gs \in TickStates(h) :
          LET t == tick(GM, h, gs)
              matchId == intervals[h].matchId
          IN /\ SetGM(t.g)
             /\ goalsLeft' = IF Scored(h, gs) THEN goalsLeft - 1 ELSE goalsLeft
             /\ endCalls' = IF t.outcome = "end"
                            THEN [endCalls EXCEPT ![matchId] = @ + 1]
                            ELSE endCalls
             /\ lateDelta' = IF t.outcome = "update" /\ endCalls[matchId] > 0
                             THEN lateDelta \cup {matchId}
                             ELSE lateDelta
             /\ UNCHANGED <<emitted, received, sinceServe, movesLeft>>
             /\ ev' = [NoEv EXCEPT !.op = "tick", !.matchId = matchId,
                                   !.handle = h, !.outcome = t.outcome]
    /\ fired' = fired \cup {h}
    /\ UNCHANGED <<qvars, svars, nextHandle, freeIds>>

GmCancel(matchId) ==
    /\ SetGM(cancelMatch(GM, matchId))
    /\ ev' = [NoEv EXCEPT !.op = "cancelMatch", !.matchId = matchId]
    /\ UNCHANGED <<qvars, svars, nextHandle, freeIds, goalsLeft, endCalls, lateDelta, fired, emitted, received, sinceServe, movesLeft>>

GmStop(matchId) ==
    /\ SetGM(stopGameLoop(GM, matchId))
    /\ ev' = [NoEv EXCEPT !.op = "stopGameLoop", !.matchId = matchId]
    /\ UNCHANGED <<qvars, svars, nextHandle, freeIds, goalsLeft, endCalls, lateDelta, fired, emitted, received, sinceServe, movesLeft>>

\* updatePaddle called for either player with a position from PaddleYs
GmPaddle(matchId, player, paddleY) ==
    /\ SetGM(updatePaddle(GM, matchId, player, paddleY))
    /\ ev' = [NoEv EXCEPT !.op = "updatePaddle", !.matchId = matchId]
    /\ UNCHANGED <<qvars, svars, nextHandle, freeIds, goalsLeft, endCalls, lateDelta, fired, emitted, received, sinceServe, movesLeft>>

GNext ==
    \/ \E m \in GmIds, qt \in QueueTypes : GmCreate(m, qt)
    \/ \E m \in GmIds, w \in Wallets : GmJoin(m, w)
    \/ \E m \in GmIds : GmStart(m)
    \/ \E h \in 1..MaxLoops + 1 : GmTick(h)
    \/ \E m \in GmIds : GmCancel(m)
    \/ \E m \in GmIds : GmStop(m)

SpecGM == GInit /\ [][GNext]_vars

\* The same methods together with updatePaddle; the goals allowed let one
\* player reach the winning score
PaddleInit == QInit /\ GConstructed(GmIds, SCORE_TO_WIN) /\ SConstructed(0)

PaddleNext ==
    \/ GNext
    \/ \E m \in GmIds, player \in {1, 2}, y \in PaddleYs : GmPaddle(m, player, y)

SpecPaddle == PaddleInit /\ [][PaddleNext]_vars

----------------------------------------------------------------------------
(* The simulation (GameManager.ts lines 117-145 and 177-291): the ball, the *)
(* countdown and the delta sent on each tick.  Positions, velocities and    *)
(* speeds are doubles, and every step of the arithmetic is rounded as the   *)
(* code's is.                                                               *)

\* The bounds of the collision tests and the positions the ball is put on,
\* computed from the constants as lines 223-262 compute them
BallSize == num(BALL_SIZE)
HalfBall == ratio(BALL_SIZE, 2)
PaddleHeight == num(PADDLE_HEIGHT)
CanvasWidth == num(CANVAS_WIDTH)
CanvasHeight == num(CANVAS_HEIGHT)
Floor == num(CANVAS_HEIGHT - BALL_SIZE)
LeftBack == num(PADDLE_OFFSET)
LeftFace == num(PADDLE_OFFSET + PADDLE_WIDTH)
RightFace == num(CANVAS_WIDTH - PADDLE_OFFSET - PADDLE_WIDTH)
RightBack == num(CANVAS_WIDTH - PADDLE_OFFSET)
RightPush == num(CANVAS_WIDTH - PADDLE_OFFSET - PADDLE_WIDTH - BALL_SIZE)
InitialSpeed == num(BALL_SPEED_INITIAL)
MaxSpeed == num(BALL_SPEED_MAX)

\* Math.PI / 4 and Math.PI / 3 (lines 178, 239, 257 and 278)
PiOver4 == over(Math_PI, 4)
PiOver3 == over(Math_PI, 3)

\* What one serve draws (initializeGameState lines 178-184, resetBall lines
\* 278-284): random is the value of the first Math.random(), cosUp and sinUp
\* the side to which the engine rounds Math.cos and Math.sin of the angle.
\* Level is the serve of Math.random() = 0.5, whose angle is 0; the other
\* serves are those of Math.random() = 0.75, an angle of pi / 16.
Level == [random |-> Half, cosUp |-> FALSE, sinUp |-> FALSE]

Serves ==
    {Level} \cup {[random |-> ratio(3, 4), cosUp |-> c, sinUp |-> s] :
                     c \in BOOLEAN, s \in BOOLEAN}

\* The side to which the engine rounds Math.cos and Math.sin in a paddle
\* collision
Roundings == [cosUp : BOOLEAN, sinUp : BOOLEAN]

\* const angle = (Math.random() - 0.5) * (Math.PI / 4)
serveAngle(serve) == times(minus(serve.random, Half), PiOver4)

\* initializeGameState with its ball and countdown fields; sign is the
\* outcome of Math.random() > 0.5 ? 1 : -1
initializeBall(serve, sign) ==
    [ballX |-> CentreX,
     ballY |-> CentreY,
     ballVelX |-> times(times(Math_cos(serveAngle(serve), serve.cosUp), InitialSpeed),
                        num(sign)),
     ballVelY |-> times(Math_sin(serveAngle(serve), serve.sinUp), InitialSpeed),
     ballSpeed |-> InitialSpeed,
     gameStarted |-> FALSE,
     countdown |-> 3,
     isCountingDown |-> TRUE] @@ initializeGameState

\* Faulty variant of resetBall: the serve goes away from the side that conceded
resetBallAway(state, serveToPlayer1, serve) ==
    [state EXCEPT !.ballX = CentreX,
                  !.ballY = CentreY,
                  !.ballVelX = times(times(Math_cos(serveAngle(serve), serve.cosUp),
                                           InitialSpeed),
                                     num(IF serveToPlayer1 THEN 1 ELSE 0 - 1)),
                  !.ballVelY = times(Math_sin(serveAngle(serve), serve.sinUp),
                                     InitialSpeed),
                  !.ballSpeed = InitialSpeed,
                  !.gameStarted = FALSE,
                  !.isCountingDown = TRUE,
                  !.countdown = 3]

\* resetBall (lines 277-291)
resetBall(state, serveToPlayer1, serve) ==
    [state EXCEPT !.ballX = CentreX,
                  !.ballY = CentreY,
                  !.ballVelX = times(times(Math_cos(serveAngle(serve), serve.cosUp),
                                           InitialSpeed),
                                     num(IF serveToPlayer1 THEN 0 - 1 ELSE 1)),
                  !.ballVelY = times(Math_sin(serveAngle(serve), serve.sinUp),
                                     InitialSpeed),
                  !.ballSpeed = InitialSpeed,
                  !.gameStarted = FALSE,
                  !.isCountingDown = TRUE,
                  !.countdown = 3]

\* Faulty variant of bounce: the ball is left where the collision found it
bounceInPlace(state, paddleY, sign, pushX, rounding) ==
    LET hitPos == over(minus(plus(state.ballY, HalfBall), paddleY), PADDLE_HEIGHT)
        angle == times(minus(hitPos, Half), PiOver3)
        speed == Math_min(plus(state.ballSpeed, BALL_SPEED_INCREASE), MaxSpeed)
        velX == Math_abs(times(Math_cos(angle, rounding.cosUp), speed))
    IN [state EXCEPT !.ballSpeed = speed,
                     !.ballVelX = IF sign = 1 THEN velX ELSE neg(velX),
                     !.ballVelY = times(Math_sin(angle, rounding.sinUp), speed)]

\* The body of a paddle collision (lines 238-244 and 256-262): the state
\* with the ball sent back by the paddle at paddleY; sign is 1 for the left
\* paddle, whose ballVelX is Math.abs(...), and -1 for the right one, whose
\* ballVelX is -Math.abs(...); pushX is the position the ball is pushed to
bounce(state, paddleY, sign, pushX, rounding) ==
    LET hitPos == over(minus(plus(state.ballY, HalfBall), paddleY), PADDLE_HEIGHT)
        angle == times(minus(hitPos, Half), PiOver3)
        speed == Math_min(plus(state.ballSpeed, BALL_SPEED_INCREASE), MaxSpeed)
        velX == Math_abs(times(Math_cos(angle, rounding.cosUp), speed))
    IN [state EXCEPT !.ballSpeed = speed,
                     !.ballVelX = IF sign = 1 THEN velX ELSE neg(velX),
                     !.ballVelY = times(Math_sin(angle, rounding.sinUp), speed),
                     !.ballX = pushX]

\* Lines 219-227: the ball moves by its velocity and is turned by the top
\* and bottom walls
wallBounce(state) ==
    LET turned(moved) ==
            IF less(moved.ballY, Zero) \/ less(CanvasHeight, plus(moved.ballY, BallSize))
            THEN [moved EXCEPT !.ballVelY = neg(@),
                               !.ballY = IF less(moved.ballY, Zero) THEN Zero ELSE Floor]
            ELSE moved
    IN turned([state EXCEPT !.ballX = plus(@, state.ballVelX),
                            !.ballY = plus(@, state.ballVelY)])

\* The condition of the collision with player 1's paddle (lines 231-237)
hitsLeft(state) ==
    /\ less(state.ballVelX, Zero)
    /\ atMost(state.ballX, LeftFace)
    /\ atMost(LeftBack, plus(state.ballX, BallSize))
    /\ atMost(state.player1PaddleY, plus(state.ballY, BallSize))
    /\ atMost(state.ballY, plus(state.player1PaddleY, PaddleHeight))

\* The condition of the collision with player 2's paddle (lines 249-255)
hitsRight(state) ==
    /\ less(Zero, state.ballVelX)
    /\ atMost(RightFace, plus(state.ballX, BallSize))
    /\ atMost(state.ballX, RightBack)
    /\ atMost(state.player2PaddleY, plus(state.ballY, BallSize))
    /\ atMost(state.ballY, plus(state.player2PaddleY, PaddleHeight))

\* The two collision blocks in their order (lines 229-263)
paddles(walls, rounding) ==
    LET second(left) ==
            IF hitsRight(left)
            THEN bounce(left, left.player2PaddleY, 0 - 1, RightPush, rounding)
            ELSE left
    IN second(IF hitsLeft(walls)
              THEN bounce(walls, walls.player1PaddleY, 1, LeftFace, rounding)
              ELSE walls)

\* Which of the two collision blocks a tick on state enters
paddleHit(state, rounding) ==
    LET blocks(l, r) ==
            IF l /\ r THEN "both"
            ELSE IF l THEN "left" ELSE IF r THEN "right" ELSE "none"
        entered(walls) ==
            blocks(hitsLeft(walls),
                   hitsRight(IF hitsLeft(walls)
                             THEN bounce(walls, walls.player1PaddleY, 1, LeftFace,
                                         rounding)
                             ELSE walls))
    IN entered(wallBounce(state))

\* updateGameState from line 219 on: the ball moves, is turned by the walls
\* and the paddles, and a point is scored when it has left the canvas
moveBall(state, serve, rounding) ==
    LET scoring(right) ==
            IF less(right.ballX, Zero)
            THEN resetBall([right EXCEPT !.player2Score = @ + 1], TRUE, serve)
            ELSE IF less(CanvasWidth, right.ballX)
                 THEN resetBall([right EXCEPT !.player1Score = @ + 1], FALSE, serve)
                 ELSE right
    IN scoring(paddles(wallBounce(state), rounding))

\* Faulty variant of stepGameState: the countdown is one tick short
stepGameStateShort(match, serve, rounding) ==
    LET state == match.gameState
    IN IF state.isCountingDown /\ ~state.gameStarted
       THEN LET ticks == match.countdownTicks + 1
                cd == state.countdown - 1
            IN IF ticks >= 59
               THEN [match EXCEPT
                       !.countdownTicks = 0,
                       !.gameState = IF cd <= 0
                                     THEN [state EXCEPT !.countdown = cd,
                                                        !.gameStarted = TRUE,
                                                        !.isCountingDown = FALSE]
                                     ELSE [state EXCEPT !.countdown = cd]]
               ELSE [match EXCEPT !.countdownTicks = ticks]
       ELSE IF ~state.gameStarted
            THEN match
            ELSE [match EXCEPT !.gameState = moveBall(state, serve, rounding)]

\* updateGameState (lines 197-275) on the match with all its fields: the
\* match afterwards.  countdownTicks, which the code creates on the first
\* countdown tick, is 0 from the start.
stepGameState(match, serve, rounding) ==
    LET state == match.gameState
    IN IF state.isCountingDown /\ ~state.gameStarted
       THEN LET ticks == match.countdownTicks + 1
                cd == state.countdown - 1
            IN IF ticks >= 60
               THEN [match EXCEPT
                       !.countdownTicks = 0,
                       !.gameState = IF cd <= 0
                                     THEN [state EXCEPT !.countdown = cd,
                                                        !.gameStarted = TRUE,
                                                        !.isCountingDown = FALSE]
                                     ELSE [state EXCEPT !.countdown = cd]]
               ELSE [match EXCEPT !.countdownTicks = ticks]
       ELSE IF ~state.gameStarted
            THEN match
            ELSE [match EXCEPT !.gameState = moveBall(state, serve, rounding)]

\* The fields createDeltaState compares after rounding, and those it
\* compares as they are
RoundedFields ==
    {"ballX", "ballY", "ballVelX", "ballVelY", "ballSpeed",
     "player1PaddleY", "player2PaddleY"}

ExactFields ==
    {"player1Score", "player2Score", "gameStarted", "countdown", "isCountingDown"}

Hundred == num(100)

\* round of createDeltaState (line 129), Math.round(n * 100) / 100, as the
\* integer Math.round(n * 100): two numbers have the same quotient by 100
\* exactly when they have the same integer.  The product n * 100 is the
\* rounded one of the code, so that round(1.005) is 100, as 1.005 * 100 is
\* 100.49999999999999.
round(n) == Math_round(times(n, Hundred))

\* Faulty variant of createDeltaState: the positions are compared as they are
createDeltaStateExact(prev, matchId, currentState) ==
    IF matchId \notin DOMAIN prev
    THEN currentState
    ELSE [f \in {x \in RoundedFields \cup ExactFields :
                    currentState[x] # prev[matchId][x]} |-> currentState[f]]

\* Faulty variant of createDeltaState: the positions are compared in tenths
createDeltaStateTenths(prev, matchId, currentState) ==
    IF matchId \notin DOMAIN prev
    THEN currentState
    ELSE LET previousState == prev[matchId]
             changed == {f \in RoundedFields :
                            Math_round(times(currentState[f], num(10)))
                               # Math_round(times(previousState[f], num(10)))}
                        \cup {f \in ExactFields : currentState[f] # previousState[f]}
         IN [f \in changed |-> currentState[f]]

\* createDeltaState (lines 117-145): the whole state when nothing is cached
\* for the match, else the fields that changed, as a function on their names.
\* Two equal numbers round to the same, so only the fields whose number
\* differs are rounded.
createDeltaState(prev, matchId, currentState) ==
    IF matchId \notin DOMAIN prev
    THEN currentState
    ELSE LET previousState == prev[matchId]
             changed == {f \in RoundedFields :
                            /\ currentState[f] # previousState[f]
                            /\ round(currentState[f]) # round(previousState[f])}
                        \cup {f \in ExactFields : currentState[f] # previousState[f]}
         IN [f \in changed |-> currentState[f]]

\* What a receiver holds after a delta: the state it held with the fields
\* of the delta put over it
overlay(held, delta) ==
    [f \in DOMAIN held \cup DOMAIN delta |->
        IF f \in DOMAIN delta THEN delta[f] ELSE held[f]]

\* Paddle positions the players send during play: above the canvas, its
\* lower edge, and four and six thousandths below the paddle's first position
PlayPaddleYs ==
    {num(0 - 10), num(CANVAS_HEIGHT), ratio(185004, 1000), ratio(185006, 1000)}

\* A new GameManager and the points played before the model stops ticking
PhysInit ==
    /\ QInit
    /\ SConstructed(0)
    /\ matches = EmptyMap
    /\ gameLoops = EmptyMap
    /\ previousStates = EmptyMap
    /\ intervals = EmptyMap
    /\ nextHandle = 1
    /\ freeIds = GmIds
    /\ goalsLeft = MaxPoints
    /\ endCalls = [m \in MatchIds |-> 0]
    /\ lateDelta = {}
    /\ ev = NoEv
    /\ fired = {}
    /\ emitted = "none"
    /\ received = EmptyMap
    /\ sinceServe = 0
    /\ movesLeft = MaxMoves
    /\ matchStatus = [m \in MatchIds |-> "none"]

\* createMatch with the ball Math.random gave it
PhCreate(matchId, serve, sign) ==
    /\ matchId \in freeIds
    /\ freeIds' = freeIds \ {matchId}
    /\ LET g == createMatch(GM, matchId, "s1", "w1", 1000, "ranked")
           match == [countdownTicks |-> 0] @@
                       [g.matches[matchId] EXCEPT !.gameState = initializeBall(serve, sign)]
       IN SetGM([g EXCEPT !.matches[matchId] = match])
    /\ ev' = [NoEv EXCEPT !.op = "createMatch", !.matchId = matchId]
    /\ UNCHANGED <<qvars, svars, nextHandle, goalsLeft, endCalls, lateDelta,
                   fired, emitted, received, sinceServe, movesLeft>>

\* joinMatch by the second player
PhJoin(matchId) ==
    /\ matchId \in DOMAIN matches
    /\ matches[matchId].status = "waiting"
    /\ SetGM(joinMatch(GM, matchId, "s2", "w2", 1000))
    /\ ev' = [NoEv EXCEPT !.op = "joinMatch", !.matchId = matchId]
    /\ UNCHANGED <<qvars, svars, nextHandle, freeIds, goalsLeft, endCalls,
                   lateDelta, fired, emitted, received, sinceServe, movesLeft>>

\* startGameLoop, once for the match as the server calls it
PhStart(matchId) ==
    /\ matchId \in DOMAIN matches
    /\ matches[matchId].status = "active"
    /\ nextHandle = 1
    /\ SetGM(startGameLoop(GM, matchId, nextHandle, [queueType |-> "none"]))
    /\ nextHandle' = nextHandle + 1
    /\ ev' = [NoEv EXCEPT !.op = "startGameLoop", !.matchId = matchId,
                          !.handle = nextHandle]
    /\ UNCHANGED <<qvars, svars, freeIds, goalsLeft, endCalls, lateDelta, fired,
                   emitted, received, sinceServe, movesLeft>>

\* The ball of the match of timer h is in play, so that the next tick of the
\* timer moves it
InPlay(h) ==
    /\ h \in DOMAIN intervals
    /\ intervals[h].matchId \in DOMAIN matches
    /\ matches[intervals[h].matchId].status = "active"
    /\ matches[intervals[h].matchId].gameState.gameStarted

\* The only serve and the only rounding of a tick that draws none
NoRounding == [cosUp |-> FALSE, sinUp |-> FALSE]

\* What the next tick of timer h can draw, as pairs of a serve and a
\* rounding: a tick calls Math.cos and Math.sin for a collision only when
\* the ball hits a paddle, and Math.random, Math.cos and Math.sin for a serve
\* only when it scores a point (resetBall); a ball sent back by a paddle lies
\* within the canvas, so that no tick draws both
TickDraws(h) ==
    LET draws(walls) ==
            IF hitsLeft(walls) \/ hitsRight(walls)
            THEN {Level} \X Roundings
            ELSE IF less(walls.ballX, Zero) \/ less(CanvasWidth, walls.ballX)
                 THEN Serves \X {NoRounding}
                 ELSE {<<Level, NoRounding>>}
    IN IF InPlay(h)
       THEN draws(wallBounce(matches[intervals[h].matchId].gameState))
       ELSE {<<Level, NoRounding>>}

\* The interval callback of startGameLoop (lines 71-101) with the simulation
\* in full; serve is what Math.random and the engine give resetBall if a
\* point is scored, rounding what the engine gives a paddle collision.
\* After the last point of the bound the loop still runs through the
\* countdown that follows it and the first movement of the new ball.
PhTick(h, serve, rounding) ==
    /\ h \in DOMAIN intervals
    /\ goalsLeft > 0 \/ sinceServe <= 180
    /\ LET matchId == intervals[h].matchId
           live == matchId \in DOMAIN matches /\ matches[matchId].status = "active"
           before == IF live THEN matches[matchId].gameState ELSE initializeGameState
           done(t, delta, scored) ==
               /\ SetGM(t.g)
               /\ goalsLeft' = IF scored THEN goalsLeft - 1 ELSE goalsLeft
               /\ endCalls' = IF t.outcome = "end"
                              THEN [endCalls EXCEPT ![matchId] = @ + 1]
                              ELSE endCalls
               /\ lateDelta' = IF t.outcome = "update" /\ endCalls[matchId] > 0
                               THEN lateDelta \cup {matchId}
                               ELSE lateDelta
               /\ emitted' = IF t.outcome = "update" THEN delta ELSE emitted
               /\ received' = IF t.outcome = "update"
                              THEN overlay(received, delta)
                              ELSE received
               /\ sinceServe' = IF ~live THEN sinceServe
                                ELSE IF scored THEN 0 ELSE sinceServe + 1
               /\ ev' = [NoEv EXCEPT !.op = "tick", !.matchId = matchId,
                                     !.handle = h, !.outcome = t.outcome,
                                     !.hit = IF live /\ before.gameStarted
                                             THEN paddleHit(before, rounding)
                                             ELSE "none"]
           stepped(after) ==
               done(tick(IF live
                         THEN [GM EXCEPT !.matches[matchId].countdownTicks =
                                             after.countdownTicks]
                         ELSE GM,
                         h, after.gameState),
                    createDeltaState(previousStates, matchId, after.gameState),
                    /\ live
                    /\ \/ after.gameState.player1Score # before.player1Score
                       \/ after.gameState.player2Score # before.player2Score)
       IN stepped(IF live THEN stepGameState(matches[matchId], serve, rounding)
                  ELSE [gameState |-> initializeGameState, countdownTicks |-> 0])
    /\ fired' = fired \cup {h}
    /\ UNCHANGED <<qvars, svars, nextHandle, freeIds, movesLeft>>

\* updatePaddle during play; the players send a position between two ticks
\* at every MoveEvery-th tick after a serve; what the latest tick hit is kept
PhPaddle(matchId, player, paddleY) ==
    /\ movesLeft > 0
    /\ sinceServe % MoveEvery = 0
    /\ movesLeft' = movesLeft - 1
    /\ SetGM(updatePaddle(GM, matchId, player, paddleY))
    /\ ev' = [NoEv EXCEPT !.op = "updatePaddle", !.matchId = matchId,
                          !.handle = player, !.paddleY = paddleY,
                          !.hit = ev.hit]
    /\ UNCHANGED <<qvars, svars, nextHandle, freeIds, goalsLeft, endCalls,
                   lateDelta, fired, emitted, received, sinceServe>>

PhysNext ==
    \/ \E m \in GmIds, serve \in Serves, sign \in {1, 0 - 1} : PhCreate(m, serve, sign)
    \/ \E m \in GmIds : PhJoin(m)
    \/ \E m \in GmIds : PhStart(m)
    \/ \E h \in 1..1 : \E draw \in TickDraws(h) : PhTick(h, draw[1], draw[2])
    \/ \E m \in GmIds, player \in {1, 2}, y \in PlayPaddleYs : PhPaddle(m, player, y)

SpecPhysics == PhysInit /\ [][PhysNext]_vars

\* A rally: both players may put the paddle where the ball comes back level,
\* six units below the paddle's first position
RallyPaddleYs == {num(191)}

RallyInit ==
    /\ QInit
    /\ SConstructed(0)
    /\ matches = EmptyMap
    /\ gameLoops = EmptyMap
    /\ previousStates = EmptyMap
    /\ intervals = EmptyMap
    /\ nextHandle = 1
    /\ freeIds = GmIds
    /\ goalsLeft = MaxPoints
    /\ endCalls = [m \in MatchIds |-> 0]
    /\ lateDelta = {}
    /\ ev = NoEv
    /\ fired = {}
    /\ emitted = "none"
    /\ received = EmptyMap
    /\ sinceServe = 0
    /\ movesLeft = MaxMoves + 1
    /\ matchStatus = [m \in MatchIds |-> "none"]

\* The interval callback while the rally is younger than MaxRally ticks
RallyTick(h, serve, rounding) ==
    /\ sinceServe < MaxRally
    /\ PhTick(h, serve, rounding)

RallyNext ==
    \/ \E m \in GmIds, serve \in Serves, sign \in {1, 0 - 1} : PhCreate(m, serve, sign)
    \/ \E m \in GmIds : PhJoin(m)
    \/ \E m \in GmIds : PhStart(m)
    \/ \E h \in 1..1 : \E draw \in TickDraws(h) : RallyTick(h, draw[1], draw[2])
    \/ \E m \in GmIds, player \in {1, 2}, y \in RallyPaddleYs : PhPaddle(m, player, y)

SpecRally == RallyInit /\ [][RallyNext]_vars

----------------------------------------------------------------------------
(* The server (index.ts): the socket handlers, the start timers and the     *)
(* tick loops, each handler one atomic step of the event loop.  The clock   *)
(* and the cleanup timer are stepped in the queue specification above.      *)

\* What getPlayerRating may resolve to: no row (null) or a stored row
DbRows == {[rating |-> 10, placementGames |-> PLACEMENT_GAMES]}

\* getPlayerRating resolving to null
NullRow == [rating |-> -1, placementGames |-> -1]

\* getPlayerData(wallet): the table afterwards; the record returned is the
\* one at wallet
getPlayerData(pd, wallet) ==
    IF wallet \in DOMAIN pd
    THEN pd
    ELSE Put(pd, wallet, [rating |-> DEFAULT_RATING, placementGames |-> 0])

\* activeMatches.delete(matchId)
DeleteActive(am, matchId) ==
    LET other(e) == e.matchId # matchId
    IN SelectSeq(am, other)

\* isSocketAuthorizedForMatch
\* Faulty variant of isSocketAuthorizedForMatch: any connection is let
\* through for a match that is tracked
isSocketAuthorizedForAnyone(am, socketId, matchId) ==
    \E i \in 1..Len(am) : am[i].matchId = matchId

isSocketAuthorizedForMatch(am, socketId, matchId) ==
    \E i \in 1..Len(am) :
        /\ am[i].matchId = matchId
        /\ am[i].player1SocketId = socketId \/ am[i].player2SocketId = socketId

\* Faulty variant of onEnd: the ratings fed to the rating engine are the ones the
\* match was created with
onEndCreationRatings(pd, finalMatch, queueType, winnerWallet) ==
    LET player1Wallet == finalMatch.player1.wallet
        player2Wallet == finalMatch.player2.wallet
        pd0 == getPlayerData(getPlayerData(pd, player1Wallet), player2Wallet)
        isPlayer1Winner == winnerWallet = player1Wallet
        changes == calculateEloChange(
            IF isPlayer1Winner THEN finalMatch.player1.rating ELSE finalMatch.player2.rating,
            IF isPlayer1Winner THEN finalMatch.player2.rating ELSE finalMatch.player1.rating,
            IF isPlayer1Winner THEN pd0[player1Wallet].placementGames
                               ELSE pd0[player2Wallet].placementGames,
            IF isPlayer1Winner THEN pd0[player2Wallet].placementGames
                               ELSE pd0[player1Wallet].placementGames)
        rc1 == IF isPlayer1Winner THEN changes.winnerChange ELSE changes.loserChange
        rc2 == IF isPlayer1Winner THEN changes.loserChange ELSE changes.winnerChange
        pd1 == [pd0 EXCEPT ![player1Wallet].rating = Max(0, @ + rc1)]
        pd2 == [pd1 EXCEPT ![player2Wallet].rating = Max(0, @ + rc2)]
        pd3 == [pd2 EXCEPT ![player1Wallet].placementGames =
                               IF @ < PLACEMENT_GAMES THEN @ + 1 ELSE @]
    IN IF queueType = "ranked"
       THEN [pd3 EXCEPT ![player2Wallet].placementGames =
                            IF @ < PLACEMENT_GAMES THEN @ + 1 ELSE @]
       ELSE pd0

\* The winner sink handed to startGameLoop (lines 456-530), past its guard:
\* the rating table afterwards.  queueType is the closure's, not the match's.
onEnd(pd, finalMatch, queueType, winnerWallet) ==
    LET player1Wallet == finalMatch.player1.wallet
        player2Wallet == finalMatch.player2.wallet
        pd0 == getPlayerData(getPlayerData(pd, player1Wallet), player2Wallet)
        isPlayer1Winner == winnerWallet = player1Wallet
        changes == calculateEloChange(
            IF isPlayer1Winner THEN pd0[player1Wallet].rating ELSE pd0[player2Wallet].rating,
            IF isPlayer1Winner THEN pd0[player2Wallet].rating ELSE pd0[player1Wallet].rating,
            IF isPlayer1Winner THEN pd0[player1Wallet].placementGames
                               ELSE pd0[player2Wallet].placementGames,
            IF isPlayer1Winner THEN pd0[player2Wallet].placementGames
                               ELSE pd0[player1Wallet].placementGames)
        rc1 == IF isPlayer1Winner THEN changes.winnerChange ELSE changes.loserChange
        rc2 == IF isPlayer1Winner THEN changes.loserChange ELSE changes.winnerChange
        pd1 == [pd0 EXCEPT ![player1Wallet].rating = Max(0, @ + rc1)]
        pd2 == [pd1 EXCEPT ![player2Wallet].rating = Max(0, @ + rc2)]
        pd3 == [pd2 EXCEPT ![player1Wallet].placementGames =
                               IF @ < PLACEMENT_GAMES THEN @ + 1 ELSE @]
    IN IF queueType = "ranked"
       THEN [pd3 EXCEPT ![player2Wallet].placementGames =
                            IF @ < PLACEMENT_GAMES THEN @ + 1 ELSE @]
       ELSE pd0

\* Faulty variant of forfeit: the loser's rating is not clamped at 0
forfeitNoClamp(pd, match, socketId) ==
    LET disconnectedWallet == IF match.player1.socketId = socketId
                              THEN match.player1.wallet ELSE match.player2.wallet
        winnerWallet == IF match.player1.socketId = socketId
                        THEN match.player2.wallet ELSE match.player1.wallet
        pd0 == getPlayerData(getPlayerData(pd, winnerWallet), disconnectedWallet)
        changes == calculateEloChange(
            pd0[winnerWallet].rating, pd0[disconnectedWallet].rating,
            pd0[winnerWallet].placementGames, pd0[disconnectedWallet].placementGames)
        pd1 == [pd0 EXCEPT ![winnerWallet].rating = @ + changes.winnerChange]
        pd2 == [pd1 EXCEPT ![disconnectedWallet].rating = @ + changes.loserChange]
        pd3 == [pd2 EXCEPT ![winnerWallet].placementGames =
                               IF @ < PLACEMENT_GAMES THEN @ + 1 ELSE @]
        pd4 == [pd3 EXCEPT ![disconnectedWallet].placementGames =
                               IF @ < PLACEMENT_GAMES THEN @ + 1 ELSE @]
    IN [winner |-> winnerWallet, loser |-> disconnectedWallet,
        playerData |-> IF match.queueType = "ranked" THEN pd4 ELSE pd]

\* The forfeit branch of the disconnect handler (lines 634-661): who wins,
\* who loses and the rating table afterwards
forfeit(pd, match, socketId) ==
    LET disconnectedWallet == IF match.player1.socketId = socketId
                              THEN match.player1.wallet ELSE match.player2.wallet
        winnerWallet == IF match.player1.socketId = socketId
                        THEN match.player2.wallet ELSE match.player1.wallet
        pd0 == getPlayerData(getPlayerData(pd, winnerWallet), disconnectedWallet)
        changes == calculateEloChange(
            pd0[winnerWallet].rating, pd0[disconnectedWallet].rating,
            pd0[winnerWallet].placementGames, pd0[disconnectedWallet].placementGames)
        pd1 == [pd0 EXCEPT ![winnerWallet].rating = Max(0, @ + changes.winnerChange)]
        pd2 == [pd1 EXCEPT ![disconnectedWallet].rating = Max(0, @ + changes.loserChange)]
        pd3 == [pd2 EXCEPT ![winnerWallet].placementGames =
                               IF @ < PLACEMENT_GAMES THEN @ + 1 ELSE @]
        pd4 == [pd3 EXCEPT ![disconnectedWallet].placementGames =
                               IF @ < PLACEMENT_GAMES THEN @ + 1 ELSE @]
    IN [winner |-> winnerWallet, loser |-> disconnectedWallet,
        playerData |-> IF match.queueType = "ranked" THEN pd4 ELSE pd]

\* The arguments of recordMatch in the winner sink (lines 523-527):
\* ratingChanges as lines 466-485 compute them from the rating table pd
onEndRecord(pd, matchId, finalMatch, queueType, winnerWallet) ==
    LET player1Wallet == finalMatch.player1.wallet
        player2Wallet == finalMatch.player2.wallet
        pd0 == getPlayerData(getPlayerData(pd, player1Wallet), player2Wallet)
        isPlayer1Winner == winnerWallet = player1Wallet
        changes == calculateEloChange(
            IF isPlayer1Winner THEN pd0[player1Wallet].rating ELSE pd0[player2Wallet].rating,
            IF isPlayer1Winner THEN pd0[player2Wallet].rating ELSE pd0[player1Wallet].rating,
            IF isPlayer1Winner THEN pd0[player1Wallet].placementGames
                               ELSE pd0[player2Wallet].placementGames,
            IF isPlayer1Winner THEN pd0[player2Wallet].placementGames
                               ELSE pd0[player1Wallet].placementGames)
        ranked == queueType = "ranked"
    IN [matchId |-> matchId,
        player1Wallet |-> player1Wallet,
        player2Wallet |-> player2Wallet,
        winnerWallet |-> winnerWallet,
        player1Score |-> finalMatch.gameState.player1Score,
        player2Score |-> finalMatch.gameState.player2Score,
        queueType |-> queueType,
        player1RatingChange |->
            IF ~ranked THEN 0
            ELSE IF isPlayer1Winner THEN changes.winnerChange ELSE changes.loserChange,
        player2RatingChange |->
            IF ~ranked THEN 0
            ELSE IF isPlayer1Winner THEN changes.loserChange ELSE changes.winnerChange]

\* The arguments of recordMatch in the disconnect handler (lines 681-685):
\* ratingChange is the winner's change (line 658), 0 when unranked
forfeitRecord(pd, matchId, match, socketId) ==
    LET disconnectedWallet == IF match.player1.socketId = socketId
                              THEN match.player1.wallet ELSE match.player2.wallet
        winnerWallet == IF match.player1.socketId = socketId
                        THEN match.player2.wallet ELSE match.player1.wallet
        pd0 == getPlayerData(getPlayerData(pd, winnerWallet), disconnectedWallet)
        changes == calculateEloChange(
            pd0[winnerWallet].rating, pd0[disconnectedWallet].rating,
            pd0[winnerWallet].placementGames, pd0[disconnectedWallet].placementGames)
        ratingChange == IF match.queueType = "ranked" THEN changes.winnerChange ELSE 0
    IN [matchId |-> matchId,
        player1Wallet |-> match.player1.wallet,
        player2Wallet |-> match.player2.wallet,
        winnerWallet |-> winnerWallet,
        player1Score |-> match.gameState.player1Score,
        player2Score |-> match.gameState.player2Score,
        queueType |-> match.queueType,
        player1RatingChange |-> ratingChange,
        player2RatingChange |-> 0 - ratingChange]

\* A call of updatePlayerAfterMatch in flight
UpdateCall(matchId, wallet, newRating, won) ==
    [matchId |-> matchId, wallet |-> wallet, newRating |-> newRating, won |-> won,
     awaiting |-> "select"]

\* The persistence calls of the winner sink (lines 519-527), fired after the
\* ratings were applied and not awaited: both players' updates, whatever the
\* queue class, and the match record
onEndPersist(calls, pd, matchId, finalMatch, winnerWallet, record) ==
    LET player1Wallet == finalMatch.player1.wallet
        player2Wallet == finalMatch.player2.wallet
        isP1Winner == winnerWallet = player1Wallet
    IN [updates |-> calls.updates \cup
                       {UpdateCall(matchId, player1Wallet, pd[player1Wallet].rating, isP1Winner),
                        UpdateCall(matchId, player2Wallet, pd[player2Wallet].rating, ~isP1Winner)},
        records |-> calls.records \cup {record}]

\* The persistence calls of the disconnect handler (lines 674-685): the
\* updates for a ranked match only, the match record always
forfeitPersist(calls, pd, matchId, match, winnerWallet, disconnectedWallet, record) ==
    [updates |-> IF match.queueType = "ranked"
                 THEN calls.updates \cup
                         {UpdateCall(matchId, winnerWallet, pd[winnerWallet].rating, TRUE),
                          UpdateCall(matchId, disconnectedWallet,
                                     pd[disconnectedWallet].rating, FALSE)}
                 ELSE calls.updates,
     records |-> calls.records \cup {record}]

\* What a resolution (match_ended with the rating mutation before it) did,
\* and what it handed to recordMatch
Resolution(kind, matchId, winner, loser, queueType, before, after, record) ==
    [kind |-> kind, matchId |-> matchId, winner |-> winner, loser |-> loser,
     queueType |-> queueType, before |-> before, after |-> after,
     record |-> record]

SInit(ids, goals, joins) ==
    QInit /\ GConstructed(ids, goals) /\ SConstructed(joins)

\* join_queue handler (lines 355-538), past its input checks.  The handler
\* stamps the joiner with the clock (line 400), so that the joiner's range is
\* the initial one whatever the clock shows to the reads of addToQueue, and
\* an opponent within that range passes its own check at every reading: the
\* reads of the call decide nothing here and are taken as equal.
JoinQueue(s, w, qt) ==
    /\ s \in connected
    /\ joinsLeft > 0
    /\ joinsLeft' = joinsLeft - 1
    /\ LET pd1 == getPlayerData(playerData, w)
           player == [socketId |-> s, wallet |-> w, queueType |-> qt,
                      rating |-> pd1[w].rating, queuedAt |-> now, eid |-> nextEid]
           res == IF qt = "ranked"
                  THEN addToRankedQueue(rankedQueue, player,
                                        Steady(now, ReadsOfCall(qt, rankedQueue)))
                  ELSE addToUnrankedQueue(unrankedQueue, player)
       IN /\ rankedQueue' = IF qt = "ranked" THEN res.queue ELSE rankedQueue
          /\ unrankedQueue' = IF qt = "ranked" THEN unrankedQueue ELSE res.queue
          /\ IF res.matched # <<>>
             THEN /\ freeIds # {}
                  /\ LET opponent == res.matched[1]
                         matchId == CHOOSE m \in freeIds : TRUE
                         pd2 == getPlayerData(pd1, opponent.wallet)
                         g1 == createMatch(GM, matchId, opponent.socketId,
                                           opponent.wallet, pd2[opponent.wallet].rating, qt)
                         g2 == joinMatch(g1, matchId, s, w, pd1[w].rating)
                     IN /\ SetGM(g2)
                        /\ playerData' = pd2
                        /\ freeIds' = freeIds \ {matchId}
                        /\ activeMatches' = Append(DeleteActive(activeMatches, matchId),
                              [matchId |-> matchId,
                               player1SocketId |-> opponent.socketId,
                               player2SocketId |-> s])
                        /\ pendingStarts' = pendingStarts \cup
                              {[matchId |-> matchId, queueType |-> qt]}
                        /\ ev' = NoEv
             ELSE /\ playerData' = pd1
                  /\ ev' = NoEv
                  /\ UNCHANGED <<matches, gameLoops, previousStates, intervals,
                                 freeIds, activeMatches, pendingStarts, matchStatus>>
    /\ nextEid' = nextEid + 1
    /\ UNCHANGED <<eloCall, now, advances, ret, matchCount, removeCount, nextHandle,
                   goalsLeft, endCalls, lateDelta, fired, loading, connected,
                   cancelled, resolved, persisting, dropped, emitted, received, sinceServe, movesLeft>>

\* leave_queue handler (lines 541-547)
LeaveQueue(s) ==
    /\ s \in connected
    /\ LET res == removeFromQueue(rankedQueue, unrankedQueue, s)
       IN /\ rankedQueue' = res.ranked
          /\ unrankedQueue' = res.unranked
          /\ ev' = NoEv
    /\ UNCHANGED <<eloCall, now, nextEid, advances, ret, matchCount, removeCount,
                   matches, gameLoops, previousStates, intervals, nextHandle,
                   freeIds, goalsLeft, endCalls, lateDelta, fired, svars, matchStatus, emitted, received, sinceServe, movesLeft>>

\* cancel_match handler (lines 573-594)
CancelMatch(s, matchId) ==
    /\ s \in connected
    /\ IF isSocketAuthorizedForMatch(activeMatches, s, matchId)
       THEN /\ activeMatches' = DeleteActive(activeMatches, matchId)
            /\ SetGM(cancelMatch(GM, matchId))
            /\ cancelled' = cancelled \cup {matchId}
            /\ ev' = NoEv
       ELSE /\ ev' = NoEv
            /\ UNCHANGED <<activeMatches, matches, gameLoops, previousStates,
                           intervals, cancelled, matchStatus>>
    /\ UNCHANGED <<qvars, nextHandle, freeIds, goalsLeft, endCalls, lateDelta,
                   fired, playerData, loading, connected, pendingStarts, resolved, persisting, joinsLeft, dropped, emitted, received, sinceServe, movesLeft>>

\* The getPlayerRating calls in flight
LoadsInFlight == SumOver(loading, Wallets)

\* get_rating handler (lines 597-610) up to the await in loadPlayerData
\* (line 137); with the record cached it answers at once, else every event
\* starts a getPlayerRating call of its own
GetRating(s, w) ==
    /\ s \in connected
    /\ w \in DOMAIN playerData \/ LoadsInFlight < MaxLoads
    /\ loading' = IF w \in DOMAIN playerData THEN loading
                  ELSE [loading EXCEPT ![w] = @ + 1]
    /\ ev' = NoEv
    /\ UNCHANGED <<qvars, matches, gameLoops, previousStates, intervals,
                   nextHandle, freeIds, goalsLeft, endCalls, lateDelta, fired,
                   playerData, connected, activeMatches, pendingStarts,
                   cancelled, resolved, persisting, joinsLeft, dropped, matchStatus, emitted, received, sinceServe, movesLeft>>

\* loadPlayerData after the await (lines 138-142), for one of the calls in
\* flight: dbData is a row or null
RatingLoaded(w, dbData) ==
    /\ loading[w] > 0
    /\ loading' = [loading EXCEPT ![w] = @ - 1]
    /\ playerData' = IF dbData # NullRow
                     THEN Put(playerData, w, dbData)
                     ELSE getPlayerData(playerData, w)
    /\ ev' = NoEv
    /\ UNCHANGED <<qvars, matches, gameLoops, previousStates, intervals,
                   nextHandle, freeIds, goalsLeft, endCalls, lateDelta, fired,
                   connected, activeMatches, pendingStarts, cancelled, resolved, persisting, joinsLeft, dropped, matchStatus, emitted, received, sinceServe, movesLeft>>

\* GET /player/:wallet (lines 179-194): getPlayerData creates the record of a
\* wallet that has none
GetPlayer(w) ==
    /\ playerData' = getPlayerData(playerData, w)
    /\ ev' = NoEv
    /\ UNCHANGED <<qvars, matches, gameLoops, previousStates, intervals,
                   nextHandle, freeIds, goalsLeft, endCalls, lateDelta, fired,
                   loading, connected, activeMatches, pendingStarts, cancelled,
                   resolved, persisting, joinsLeft, dropped, matchStatus, emitted,
                   received, sinceServe, movesLeft>>

\* disconnect handler (lines 613-694): the loop over activeMatches handles
\* the first entry holding the socket and breaks
Disconnect(s) ==
    /\ s \in connected
    /\ connected' = connected \ {s}
    /\ dropped' = dropped \cup
          {[matchId |-> m, socketId |-> s,
            other |-> IF matches[m].player1.socketId = s
                      THEN matches[m].player2.wallet
                      ELSE matches[m].player1.wallet] :
             m \in {x \in DOMAIN matches :
                       /\ matches[x].status = "active"
                       /\ s \in {matches[x].player1.socketId,
                                  matches[x].player2.socketId}}}
    /\ LET res == removeFromQueue(rankedQueue, unrankedQueue, s)
           idx == FindIndex({i \in 1..Len(activeMatches) :
                                \/ activeMatches[i].player1SocketId = s
                                \/ activeMatches[i].player2SocketId = s})
       IN /\ rankedQueue' = res.ranked
          /\ unrankedQueue' = res.unranked
          /\ IF idx = 0
             THEN /\ ev' = NoEv
                  /\ UNCHANGED <<matches, gameLoops, previousStates, intervals,
                                 playerData, activeMatches, resolved, persisting, matchStatus>>
             ELSE LET matchId == activeMatches[idx].matchId
                      found == /\ matchId \in DOMAIN matches
                               /\ matches[matchId].player2 # NullPlayer
                      f == forfeit(playerData, matches[matchId], s)
                  IN /\ playerData' = IF found THEN f.playerData ELSE playerData
                     /\ resolved' = IF found
                                    THEN [resolved EXCEPT ![matchId] = Append(@,
                                            Resolution("forfeit", matchId, f.winner, f.loser,
                                                       matches[matchId].queueType,
                                                       playerData, f.playerData,
                                                       forfeitRecord(playerData, matchId,
                                                                     matches[matchId], s)))]
                                    ELSE resolved
                     /\ persisting' = IF found
                                      THEN forfeitPersist(persisting, f.playerData, matchId,
                                              matches[matchId], f.winner, f.loser,
                                              forfeitRecord(playerData, matchId,
                                                            matches[matchId], s))
                                      ELSE persisting
                     /\ SetGM(cancelMatch(GM, matchId))
                     /\ activeMatches' = DeleteActive(activeMatches, matchId)
                     /\ ev' = NoEv
    /\ UNCHANGED <<eloCall, now, nextEid, advances, ret, matchCount, removeCount,
                   nextHandle, freeIds, goalsLeft, endCalls, lateDelta, fired,
                   loading, pendingStarts, cancelled, joinsLeft, emitted, received, sinceServe, movesLeft>>

\* The setTimeout callback of the join_queue handler (lines 448-532)
StartTimer(matchId, queueType) ==
    /\ [matchId |-> matchId, queueType |-> queueType] \in pendingStarts
    /\ pendingStarts' = pendingStarts \ {[matchId |-> matchId, queueType |-> queueType]}
    /\ SetGM(startGameLoop(GM, matchId, nextHandle, [queueType |-> queueType]))
    /\ nextHandle' = nextHandle + 1
    /\ ev' = NoEv
    /\ UNCHANGED <<qvars, freeIds, goalsLeft, endCalls, lateDelta, fired,
                   playerData, loading, connected, activeMatches, cancelled,
                   resolved, persisting, joinsLeft, dropped, emitted, received, sinceServe, movesLeft>>

\* One run of the interval callback of timer h with the sinks the join_queue
\* handler gave it: onUpdate emits the delta, onEnd is lines 456-530
Tick(h) ==
    /\ h \in DOMAIN intervals
    /\ \E gs \in TickStates(h) :
          LET t == tick(GM, h, gs)
              matchId == intervals[h].matchId
              queueType == intervals[h].sinks.queueType
              ended == /\ t.outcome = "end"
                       /\ matchId \in DOMAIN t.g.matches
                       /\ t.g.matches[matchId].player2 # NullPlayer
              finalMatch == t.g.matches[matchId]
              pd == onEnd(playerData, finalMatch, queueType, t.winner)
              loser == IF t.winner = finalMatch.player1.wallet
                       THEN finalMatch.player2.wallet ELSE finalMatch.player1.wallet
          IN /\ SetGM(t.g)
             /\ playerData' = IF ended THEN pd ELSE playerData
             /\ activeMatches' = IF ended THEN DeleteActive(activeMatches, matchId)
                                 ELSE activeMatches
             /\ resolved' = IF ended
                            THEN [resolved EXCEPT ![matchId] = Append(@,
                                    Resolution("completed", matchId, t.winner, loser,
                                               queueType, playerData, pd,
                                               onEndRecord(playerData, matchId, finalMatch,
                                                           queueType, t.winner)))]
                            ELSE resolved
             /\ persisting' = IF ended
                              THEN onEndPersist(persisting, pd, matchId, finalMatch, t.winner,
                                      onEndRecord(playerData, matchId, finalMatch,
                                                  queueType, t.winner))
                              ELSE persisting
             /\ goalsLeft' = IF Scored(h, gs) THEN goalsLeft - 1 ELSE goalsLeft
             /\ endCalls' = IF t.outcome = "end"
                            THEN [endCalls EXCEPT ![matchId] = @ + 1]
                            ELSE endCalls
             /\ lateDelta' = IF t.outcome = "update" /\ endCalls[matchId] > 0
                             THEN lateDelta \cup {matchId}
                             ELSE lateDelta
             /\ UNCHANGED <<emitted, received, sinceServe, movesLeft>>
             /\ ev' = [NoEv EXCEPT !.op = "tick", !.matchId = matchId,
                                   !.handle = h, !.outcome = t.outcome]
    /\ fired' = fired \cup {h}
    /\ UNCHANGED <<qvars, nextHandle, freeIds, loading, connected,
                   pendingStarts, cancelled, joinsLeft, dropped>>

SNext ==
    \/ \E w \in Wallets, qt \in QueueTypes : JoinQueue(SocketOf(w), w, qt)
    \/ \E s \in Sockets : LeaveQueue(s)
    \/ \E s \in Sockets, m \in MatchIds : CancelMatch(s, m)
    \/ \E s \in Sockets, w \in Wallets : GetRating(s, w)
    \/ \E w \in Wallets : GetPlayer(w)
    \/ \E w \in Wallets, dbData \in DbRows \cup {NullRow} : RatingLoaded(w, dbData)
    \/ \E s \in Sockets : Disconnect(s)
    \/ \E m \in MatchIds, qt \in QueueTypes :
          StartTimer(m, qt)
    \/ \E h \in 1..Cardinality(MatchIds) : Tick(h)

\* The server with two match ids to hand out and a few points to score
Spec == SInit(MatchIds, MaxGoals, MaxJoins) /\ [][SNext]_vars

\* The socket events and timers of the server, with one get_rating per wallet
\* at a time
PlayNext ==
    \/ \E w \in Wallets, qt \in QueueTypes : JoinQueue(SocketOf(w), w, qt)
    \/ \E s \in Sockets : LeaveQueue(s)
    \/ \E s \in Sockets, m \in MatchIds : CancelMatch(s, m)
    \/ \E w \in Wallets : loading[w] = 0 /\ GetRating(SocketOf(w), w)
    \/ \E w \in Wallets, dbData \in DbRows \cup {NullRow} : RatingLoaded(w, dbData)
    \/ \E s \in Sockets : Disconnect(s)
    \/ \E m \in MatchIds, qt \in QueueTypes :
          StartTimer(m, qt)
    \/ \E h \in 1..Cardinality(MatchIds) : Tick(h)

\* The server playing one match to its end
SpecPlay == SInit({"m1"}, 2 * SCORE_TO_WIN, PlayJoins) /\ [][PlayNext]_vars

\* Faulty variant of settled: a call that failed is issued again
settledRetry(calls, kind, call, failed) ==
    IF failed
    THEN calls
    ELSE IF kind = "update"
         THEN [calls EXCEPT !.updates = @ \ {call}]
         ELSE [calls EXCEPT !.records = @ \ {call}]

\* The calls in flight once one of them has settled: the promise of
\* updatePlayerAfterMatch or recordMatch (part_001 lines 69-112, 117-150)
\* resolves, after the write or after the error was logged, and the catch
\* handler at the call site (index.ts lines 521-527) only logs
settled(calls, kind, call, failed) ==
    IF kind = "update"
    THEN [calls EXCEPT !.updates = @ \ {call}]
    ELSE [calls EXCEPT !.records = @ \ {call}]

\* The calls in flight once the select of an updatePlayerAfterMatch call has
\* resolved (part_001 lines 82-103): the call goes on to its upsert and
\* awaits that; if the select threw, the catch block logs and the call is over
selected(calls, call, threw) ==
    IF threw
    THEN [calls EXCEPT !.updates = @ \ {call}]
    ELSE [calls EXCEPT !.updates = (@ \ {call}) \cup {[call EXCEPT !.awaiting = "upsert"]}]

\* updatePlayerAfterMatch resumes after its first await, the select of the
\* existing row
UpdatePlayerSelected(call, threw) ==
    /\ call \in persisting.updates
    /\ call.awaiting = "select"
    /\ persisting' = selected(persisting, call, threw)
    /\ ev' = [NoEv EXCEPT !.op = "updatePlayerAfterMatch", !.matchId = call.matchId,
                          !.outcome = IF threw THEN "failed" ELSE "selected"]
    /\ UNCHANGED <<qvars, matches, gameLoops, previousStates, intervals,
                   nextHandle, freeIds, goalsLeft, endCalls, lateDelta, fired,
                   matchStatus, emitted, received, sinceServe, movesLeft,
                   playerData, loading, connected, activeMatches, pendingStarts,
                   joinsLeft, dropped, cancelled, resolved>>

\* updatePlayerAfterMatch settles after its second await, the upsert, with
\* the row written or with a failure
UpdatePlayerSettled(call, failed) ==
    /\ call \in persisting.updates
    /\ call.awaiting = "upsert"
    /\ persisting' = settled(persisting, "update", call, failed)
    /\ ev' = [NoEv EXCEPT !.op = "updatePlayerAfterMatch", !.matchId = call.matchId,
                          !.outcome = IF failed THEN "failed" ELSE "written"]
    /\ UNCHANGED <<qvars, matches, gameLoops, previousStates, intervals,
                   nextHandle, freeIds, goalsLeft, endCalls, lateDelta, fired,
                   matchStatus, emitted, received, sinceServe, movesLeft,
                   playerData, loading, connected, activeMatches, pendingStarts,
                   joinsLeft, dropped, cancelled, resolved>>

\* recordMatch settles, with the row written or with a failure
RecordMatchSettled(call, failed) ==
    /\ call \in persisting.records
    /\ persisting' = settled(persisting, "record", call, failed)
    /\ ev' = [NoEv EXCEPT !.op = "recordMatch", !.matchId = call.matchId,
                          !.outcome = IF failed THEN "failed" ELSE "written"]
    /\ UNCHANGED <<qvars, matches, gameLoops, previousStates, intervals,
                   nextHandle, freeIds, goalsLeft, endCalls, lateDelta, fired,
                   matchStatus, emitted, received, sinceServe, movesLeft,
                   playerData, loading, connected, activeMatches, pendingStarts,
                   joinsLeft, dropped, cancelled, resolved>>

PersistNext ==
    \/ \E w \in Wallets, qt \in QueueTypes : JoinQueue(SocketOf(w), w, qt)
    \/ \E s \in Sockets : Disconnect(s)
    \/ \E m \in MatchIds, qt \in QueueTypes :
          StartTimer(m, qt)
    \/ \E h \in 1..Cardinality(MatchIds) : Tick(h)
    \/ \E threw \in BOOLEAN :
          \E call \in persisting.updates : UpdatePlayerSelected(call, threw)
    \/ \E failed \in BOOLEAN :
          \E call \in persisting.updates : UpdatePlayerSettled(call, failed)
    \/ \E failed \in BOOLEAN :
          \E call \in persisting.records : RecordMatchSettled(call, failed)

\* The server playing one match to its end, with one more join_queue event
\* than the match takes, and its persistence calls settling
SpecPersist == SInit({"m1"}, SCORE_TO_WIN, PlayJoins + 1) /\ [][PersistNext]_vars

\* A connection that never queues and so never plays
Outsider == "s3"

\* Match ids a client may send: those the server hands out and one that is
\* not of the UUID form
SentMatchIds == MatchIds \cup {"not-a-uuid"}

\* isValidMatchId (lines 120-124): the id has the UUID form
isValidMatchId(matchId) == matchId \in MatchIds

\* isValidPaddleY (lines 116-118): a number from 0 to 450
isValidPaddleY(paddleY) == atMost(Zero, paddleY) /\ atMost(paddleY, num(450))

\* Positions a client may send: above the canvas, on it, and its lower edge
SentPaddleYs == {num(0 - 10), num(100), num(CANVAS_HEIGHT)}

\* update_paddle handler (lines 550-570)
UpdatePaddle(s, matchId, paddleY) ==
    /\ s = Outsider \/ s \in connected
    /\ movesLeft > 0
    /\ movesLeft' = movesLeft - 1
    /\ IF /\ isValidMatchId(matchId)
          /\ isValidPaddleY(paddleY)
          /\ isSocketAuthorizedForMatch(activeMatches, s, matchId)
          /\ matchId \in DOMAIN matches
       THEN LET playerNumber == IF matches[matchId].player1.socketId = s THEN 1 ELSE 2
            IN SetGM(updatePaddle(GM, matchId, playerNumber, paddleY))
       ELSE UNCHANGED <<matches, gameLoops, previousStates, intervals, matchStatus>>
    /\ ev' = [NoEv EXCEPT !.op = "update_paddle", !.matchId = matchId,
                          !.socketId = s, !.paddleY = paddleY]
    /\ UNCHANGED <<qvars, svars, nextHandle, freeIds, goalsLeft, endCalls,
                   lateDelta, fired, emitted, received, sinceServe>>

\* The server with one match id to hand out, the other one staying unknown
InputInit ==
    /\ QInit
    /\ SConstructed(PlayJoins)
    /\ matches = EmptyMap
    /\ gameLoops = EmptyMap
    /\ previousStates = EmptyMap
    /\ intervals = EmptyMap
    /\ nextHandle = 1
    /\ freeIds = {"m1"}
    /\ goalsLeft = 0
    /\ endCalls = [m \in MatchIds |-> 0]
    /\ lateDelta = {}
    /\ ev = NoEv
    /\ fired = {}
    /\ emitted = "none"
    /\ received = EmptyMap
    /\ sinceServe = 0
    /\ movesLeft = MaxMoves
    /\ matchStatus = [m \in MatchIds |-> "none"]

InputNext ==
    \/ \E w \in Wallets, qt \in QueueTypes : JoinQueue(SocketOf(w), w, qt)
    \/ \E s \in Sockets, m \in MatchIds : CancelMatch(s, m)
    \/ \E s \in Sockets : Disconnect(s)
    \/ \E m \in MatchIds, qt \in QueueTypes :
          StartTimer(m, qt)
    \/ \E h \in 1..Cardinality(MatchIds) : Tick(h)
    \/ \E s \in Sockets \cup {Outsider}, m \in SentMatchIds, y \in SentPaddleYs :
          UpdatePaddle(s, m, y)

\* The server with its clients sending paddle positions
SpecInput == InputInit /\ [][InputNext]_vars

\* The server with two match ids to hand out and the points for one match
\* to be completed
TwoInit ==
    /\ QInit
    /\ SConstructed(MaxJoins)
    /\ matches = EmptyMap
    /\ gameLoops = EmptyMap
    /\ previousStates = EmptyMap
    /\ intervals = EmptyMap
    /\ nextHandle = 1
    /\ freeIds = MatchIds
    /\ goalsLeft = SCORE_TO_WIN
    /\ endCalls = [m \in MatchIds |-> 0]
    /\ lateDelta = {}
    /\ ev = NoEv
    /\ fired = {}
    /\ emitted = "none"
    /\ received = EmptyMap
    /\ sinceServe = 0
    /\ movesLeft = MaxMoves
    /\ matchStatus = [m \in MatchIds |-> "none"]

\* Two ranked matches side by side; the clients send their paddle positions
\* once the points of the run are played
TwoNext ==
    \/ \E w \in Wallets : JoinQueue(SocketOf(w), w, "ranked")
    \/ \E s \in Sockets, m \in MatchIds : CancelMatch(s, m)
    \/ \E s \in Sockets : Disconnect(s)
    \/ \E m \in MatchIds : StartTimer(m, "ranked")
    \/ \E h \in 1..Cardinality(MatchIds) : Tick(h)
    \/ /\ goalsLeft = 0
       /\ \E s \in Sockets, m \in MatchIds : UpdatePaddle(s, m, num(CANVAS_HEIGHT))

SpecTwo == TwoInit /\ [][TwoNext]_vars

\* The server with clients that have not authenticated: the join_queue
\* handler only warns (lines 381-388), so a connection may name any wallet
AnyWalletNext ==
    \/ \E s \in Sockets, w \in Wallets, qt \in QueueTypes : JoinQueue(s, w, qt)
    \/ \E s \in Sockets : LeaveQueue(s)
    \/ \E s \in Sockets : Disconnect(s)
    \/ \E m \in MatchIds, qt \in QueueTypes :
          StartTimer(m, qt)
    \/ \E h \in 1..Cardinality(MatchIds) : Tick(h)

SpecAnyWallet == SInit({"m1"}, MaxGoals, PlayJoins) /\ [][AnyWalletNext]_vars

----------------------------------------------------------------------------
(* Claims about the matchmaking queues, checked under SpecQueue and, for the *)
(* calls as the server stamps them, under SpecServed                        *)

\* The search radius of entry e when the clock shows t, as the specification
\* states it: 100, plus 50 for every full 10 s waited, at most 500.
RadiusAt(e, t) ==
    LET steps == (t - e.queuedAt) \div 10000
        grown == 100 + 50 * steps
    IN IF grown < 500 THEN grown ELSE 500

\* The search radius of entry e when the last queue operation returned
Radius(e) == RadiusAt(e, ret.at)

RatingGap(p, q) == IF q.rating >= p.rating THEN q.rating - p.rating
                   ELSE p.rating - q.rating

\* The positions of the waiting ranked entries p may be paired with when the
\* clock shows t
EligibleAt(p, waiting, t) ==
    {i \in 1..Len(waiting) :
        /\ waiting[i].wallet # p.wallet
        /\ RatingGap(p, waiting[i]) <= RadiusAt(p, t)
        /\ RatingGap(p, waiting[i]) <= RadiusAt(waiting[i], t)}

RankedEnqueueDone == ret.op = "enqueue" /\ ret.player.queueType = "ranked"

\* The last enqueue returned the entry of E with the smallest gap, the
\* earliest stored on a tie, and none exactly when E is empty
ReturnedClosestOf(E) ==
    LET p == ret.player
    IN IF E = {}
       THEN ret.matched = <<>>
       ELSE \E i \in E :
              /\ ret.matched = <<ret.before[i]>>
              /\ \A j \in E :
                    \/ RatingGap(p, ret.before[i]) < RatingGap(p, ret.before[j])
                    \/ /\ RatingGap(p, ret.before[i]) = RatingGap(p, ret.before[j])
                       /\ i <= j

\* The times the clock showed while the last enqueue ran
TimesOfCall ==
    IF ret.reads = <<>> THEN {ret.at} ELSE ret.reads[1]..ret.reads[Len(ret.reads)]

\* C1: a ranked enqueue of entry p at time now returns a waiting ranked
\* entry q of another identity whose rating gap is within the radius of p
\* and within the radius of q at that time; among all such entries it
\* returns the one with the smallest gap, the earliest stored on a tie; it
\* returns none exactly when there is no such entry.  now is any of the
\* times the clock showed while the call ran.
C1_RankedOpponentIsClosestEligible ==
    RankedEnqueueDone =>
        \A t \in TimesOfCall :
            ReturnedClosestOf(EligibleAt(ret.player, ret.before, t))

\* Two entries of two other identities waited within both radii, the second
\* of them the closer in rating, and the second was returned; the clock
\* stepped while the call ran
C1_Witness ==
    /\ RankedEnqueueDone
    /\ Len(ret.before) = 2
    /\ ret.before[1].wallet # ret.before[2].wallet
    /\ ret.reads[1] < ret.at
    /\ EligibleAt(ret.player, ret.before, ret.reads[1]) = {1, 2}
    /\ EligibleAt(ret.player, ret.before, ret.at) = {1, 2}
    /\ RatingGap(ret.player, ret.before[2]) < RatingGap(ret.player, ret.before[1])
    /\ ret.matched = <<ret.before[2]>>

OwnBefore == IF ret.player.queueType = "ranked" THEN ret.before ELSE ret.beforeU
OwnAfter == IF ret.player.queueType = "ranked" THEN rankedQueue ELSE unrankedQueue
OtherBefore == IF ret.player.queueType = "ranked" THEN ret.beforeU ELSE ret.before
OtherAfter == IF ret.player.queueType = "ranked" THEN unrankedQueue ELSE rankedQueue

StoredEids ==
    {rankedQueue[i].eid : i \in 1..Len(rankedQueue)}
        \cup {unrankedQueue[i].eid : i \in 1..Len(unrankedQueue)}

\* C2: a successful enqueue has removed the returned opponent, and only it,
\* from its queue and has not stored the joiner; an unsuccessful one has
\* appended the joiner and changed nothing else.  No entry is returned as
\* opponent twice, none is both returned and removed by dequeue or expire,
\* and none that was returned or removed is still stored.
C2_EnqueueMovesOneEntryOnce ==
    /\ ret.op = "enqueue" =>
          /\ OtherAfter = OtherBefore
          /\ IF ret.matched = <<>>
             THEN OwnAfter = Append(OwnBefore, ret.player)
             ELSE \E i \in 1..Len(OwnBefore) :
                    /\ ret.matched = <<OwnBefore[i]>>
                    /\ OwnAfter = SubSeq(OwnBefore, 1, i - 1)
                                    \o SubSeq(OwnBefore, i + 1, Len(OwnBefore))
    /\ \A e \in Eids :
          /\ matchCount[e] <= 1
          /\ matchCount[e] + removeCount[e] <= 1
          /\ e \in StoredEids => matchCount[e] + removeCount[e] = 0

\* One entry has been returned as opponent, and the last operation, a
\* dequeue or an expire, has removed another one.
C2_Witness ==
    /\ \E e \in Eids : matchCount[e] = 1
    /\ ret.op \in {"dequeue", "expire"}
    /\ ret.removed # <<>>
    /\ \E e \in Eids : removeCount[e] = 1

\* C4: the entry an enqueue returns never has the joiner's identity, in
\* either queue class.
C4_NoSelfMatch ==
    (ret.op = "enqueue" /\ ret.matched # <<>>) =>
        ret.matched[1].wallet # ret.player.wallet

\* Only entries of the joiner's own identity were waiting in its class (for
\* ranked, within both radii), and the enqueue returned none.
C4_Witness ==
    /\ ret.op = "enqueue"
    /\ OwnBefore # <<>>
    /\ \A i \in 1..Len(OwnBefore) :
          /\ OwnBefore[i].wallet = ret.player.wallet
          /\ RatingGap(ret.player, OwnBefore[i]) <= Radius(ret.player)
          /\ RatingGap(ret.player, OwnBefore[i]) <= Radius(OwnBefore[i])
    /\ ret.matched = <<>>

----------------------------------------------------------------------------
(* Claims about the server and the GameManager *)

\* C3: each queue class holds at most one entry per identity (wallet), in
\* every reachable state
C3_OneEntryPerIdentity ==
    \A q \in {rankedQueue, unrankedQueue} :
        \A i, j \in 1..Len(q) : q[i].wallet = q[j].wallet => i = j

\* The resolution recorded for match m
Outcome(m) == resolved[m][1]

\* C5: a match a participant disconnected from while it was active has ended
\* and was resolved exactly once, as a forfeit won by the other participant,
\* with the rating table touched only if the match is ranked
C5_DisconnectForfeitsEveryMatch ==
    \A d \in dropped :
        /\ d.matchId \notin DOMAIN matches
        /\ Len(resolved[d.matchId]) = 1
        /\ Outcome(d.matchId).kind = "forfeit"
        /\ Outcome(d.matchId).winner = d.other
        /\ Outcome(d.matchId).queueType # "ranked"
              => Outcome(d.matchId).after = Outcome(d.matchId).before

AfterPlacement(n) == IF n < PLACEMENT_GAMES THEN n + 1 ELSE n

\* C6: a completed match has exactly one resolution; for a ranked match it
\* moved the winner's rating by winnerChange and the loser's to
\* max(0, rating + loserChange), both computed from the two records as they
\* were at completion, and advanced each placement count below the threshold
\* by one; for an unranked match it left the rating table as it was
C6_CompletionAppliesRatingEngineOnce ==
    \A m \in DOMAIN matches :
        matches[m].status = "completed" =>
            /\ Len(resolved[m]) = 1
            /\ Outcome(m).kind = "completed"
            /\ LET W == matches[m].winner
                   L == IF W = matches[m].player1.wallet
                        THEN matches[m].player2.wallet
                        ELSE matches[m].player1.wallet
                   before == Outcome(m).before
                   after == Outcome(m).after
                   changes == calculateEloChange(before[W].rating, before[L].rating,
                                                 before[W].placementGames,
                                                 before[L].placementGames)
               IN IF matches[m].queueType = "ranked"
                  THEN /\ DOMAIN after = DOMAIN before
                       /\ after[W].rating = before[W].rating + changes.winnerChange
                       /\ after[L].rating = Max(0, before[L].rating + changes.loserChange)
                       /\ after[W].placementGames = AfterPlacement(before[W].placementGames)
                       /\ after[L].placementGames = AfterPlacement(before[L].placementGames)
                       /\ \A w \in DOMAIN before \ {W, L} : after[w] = before[w]
                  ELSE after = before

\* A ranked match completed with the loser's rating held at 0 and the
\* winner's placement count already at the threshold
C6_Witness ==
    \E m \in DOMAIN matches :
        /\ matches[m].status = "completed"
        /\ matches[m].queueType = "ranked"
        /\ Len(resolved[m]) = 1
        /\ \E L \in DOMAIN Outcome(m).before :
              /\ L # matches[m].winner
              /\ Outcome(m).before[L].rating > 0
              /\ Outcome(m).after[L].rating = 0
        /\ Outcome(m).before[matches[m].winner].placementGames = PLACEMENT_GAMES

\* C7: a cancel_match step leaves every rating record as it was, and a match
\* cancelled that way has no winner, no resolution and no winner-sink call,
\* then and ever after
C7_CancelDeclaresNoWinner ==
    /\ [](\A m \in cancelled :
              /\ resolved[m] = <<>>
              /\ endCalls[m] = 0
              /\ m \in DOMAIN matches => matches[m].winner = "null")
    /\ [][cancelled' # cancelled => playerData' = playerData]_vars

\* A match was cancelled after its loop had scored points, and its loop is
\* gone
C7_Witness ==
    /\ "m1" \in cancelled
    /\ goalsLeft < 2 * SCORE_TO_WIN
    /\ intervals = EmptyMap
    /\ pendingStarts = {}
    /\ playerData # EmptyMap

\* C8: at most one timer runs for the id of a match, and it is the one the
\* GameManager holds the handle of, so that stopGameLoop stops it
C8_AtMostOneLoopPerMatch ==
    \A m \in DOMAIN matches :
        \A h \in DOMAIN intervals :
            intervals[h].matchId = m =>
                /\ m \in DOMAIN gameLoops
                /\ gameLoops[m] = h

\* The match of timer h is missing or not active
Stale(h) ==
    \/ intervals[h].matchId \notin DOMAIN matches
    \/ matches[intervals[h].matchId].status # "active"

\* C9: a tick of a timer whose match is missing or not active changes no
\* match, rating or resolution, calls neither sink, leaves no snapshot for
\* the match and clears the timer, whose handle is never used again; hence a
\* timer that exists for such a match has not run yet
C9_StaleTickStopsLoop ==
    /\ [](\A h \in DOMAIN intervals :
              /\ h < nextHandle
              /\ Stale(h) => h \notin fired)
    /\ [][\A h \in DOMAIN intervals :
              (ev'.op = "tick" /\ ev'.handle = h /\ Stale(h)) =>
                  /\ matches' = matches
                  /\ playerData' = playerData
                  /\ resolved' = resolved
                  /\ activeMatches' = activeMatches
                  /\ endCalls' = endCalls
                  /\ ev'.outcome = "stale"
                  /\ intervals[h].matchId \notin DOMAIN previousStates'
                  /\ h \notin DOMAIN intervals']_vars

\* The loop of a cancelled match, started after the cancellation, ran once
\* and is gone
C9_Witness ==
    /\ ev.op = "tick"
    /\ ev.outcome = "stale"
    /\ ev.matchId \in cancelled
    /\ ev.handle \in fired
    /\ ev.handle \notin DOMAIN intervals
    /\ ev.matchId \notin DOMAIN previousStates

\* C10: no score exceeds 11 and the two are never both 11; a match is
\* completed exactly when a score is 11, its winner is then the player with
\* that score, the winner sink was called once for it and for no other
\* match, no timer runs for it, and no delta was sent after the winner sink
C10_ElevenPointsEndTheMatch ==
    /\ lateDelta = {}
    /\ \A m \in MatchIds :
          /\ endCalls[m] <= 1
          /\ endCalls[m] = 1 => (m \in DOMAIN matches /\ matches[m].status = "completed")
    /\ \A m \in DOMAIN matches :
          LET gs == matches[m].gameState
          IN /\ gs.player1Score <= SCORE_TO_WIN
             /\ gs.player2Score <= SCORE_TO_WIN
             /\ ~(gs.player1Score = SCORE_TO_WIN /\ gs.player2Score = SCORE_TO_WIN)
             /\ matches[m].status = "completed" <=>
                   (gs.player1Score = SCORE_TO_WIN \/ gs.player2Score = SCORE_TO_WIN)
             /\ matches[m].status = "completed" =>
                   /\ matches[m].winner = IF gs.player1Score = SCORE_TO_WIN
                                          THEN matches[m].player1.wallet
                                          ELSE matches[m].player2.wallet
                   /\ endCalls[m] = 1
                   /\ m \notin DOMAIN gameLoops
                   /\ \A h \in DOMAIN intervals : intervals[h].matchId # m

\* A match was won 11 to 10
C10_Witness ==
    \E m \in DOMAIN matches :
        /\ matches[m].status = "completed"
        /\ matches[m].gameState.player1Score + matches[m].gameState.player2Score
              = 2 * SCORE_TO_WIN - 1
        /\ endCalls[m] = 1

----------------------------------------------------------------------------
(* The match lifecycle under the GameManager's methods                      *)

\* The moves of a match's status that the lifecycle allows
StatusMoves ==
    {<<"none", "waiting">>, <<"waiting", "active">>,
     <<"active", "completed">>, <<"active", "cancelled">>}

\* C11: a match's status moves only from waiting to active and from active
\* to completed or cancelled; a completed or cancelled status never changes
C11_StatusMovesForward ==
    [][\A m \in MatchIds :
          matchStatus'[m] # matchStatus[m] =>
              <<matchStatus[m], matchStatus'[m]>> \in StatusMoves]_vars

\* The match is over: it completed or was cancelled
TornDown(m) == matchStatus[m] \in {"completed", "cancelled"}

\* The resources of the match's loop are released: no handle, no snapshot,
\* no timer that would fire for it
Released(m) ==
    /\ m \notin DOMAIN gameLoops
    /\ m \notin DOMAIN previousStates
    /\ \A h \in DOMAIN intervals : intervals[h].matchId # m

\* cancelMatch or stopGameLoop applied to a match that is over or unknown,
\* with nothing of its loop left to release, leaves the GameManager as it was
TeardownAgainIsNoOp ==
    \A m \in MatchIds :
        (/\ TornDown(m) \/ matchStatus[m] = "none"
         /\ Released(m)
         /\ ev'.op \in {"cancelMatch", "stopGameLoop"}
         /\ ev'.matchId = m)
        => /\ matches' = matches
           /\ gameLoops' = gameLoops
           /\ previousStates' = previousStates
           /\ intervals' = intervals
           /\ matchStatus' = matchStatus

\* C12: the step that completes or cancels a match releases its loop handle,
\* snapshot and timer, so no tick of it fires afterwards; cancelling or
\* stopping a match that is over or unknown changes nothing
C12_TeardownIsIdempotent ==
    [][/\ \A m \in MatchIds :
             (~TornDown(m) /\ TornDown(m)') => Released(m)'
       /\ TeardownAgainIsNoOp]_vars

\* C13: a match that completed, was cancelled or was forfeited has no entry
\* in the participant table, the match table, the loop table or the
\* snapshot cache
C13_NoTableKeepsFinishedMatch ==
    \A m \in MatchIds :
        TornDown(m) =>
            /\ m \notin DOMAIN matches
            /\ m \notin DOMAIN gameLoops
            /\ m \notin DOMAIN previousStates
            /\ \A i \in 1..Len(activeMatches) : activeMatches[i].matchId # m

----------------------------------------------------------------------------
(* The queue over time: timeout, leaving, unranked pairing, search radii *)

\* The entry had waited longer than the timeout when the last operation ran
TimedOut(p) == ret.at - p.queuedAt > MATCH_TIMEOUT

\* The members of a queue as a set
Members(q) == {q[i] : i \in 1..Len(q)}

\* q holds exactly the entries of old that satisfy none of the removals in
\* gone, each once and in the order they had in old
KeptInOrder(q, old, gone) ==
    /\ Members(q) = Members(old) \ gone
    /\ \A i, j \in 1..Len(q) : i < j =>
          \E a, b \in 1..Len(old) : a < b /\ old[a] = q[i] /\ old[b] = q[j]

\* C14: an expire call has removed from both queues exactly the entries that
\* had waited more than 60 s, reported each of them once, and left the other
\* entries in their order; no entry is ever reported as removed twice
C14_ExpireRemovesExactlyTheTimedOut ==
    /\ ret.op = "expire" =>
          LET gone == {p \in Members(ret.before) \cup Members(ret.beforeU) : TimedOut(p)}
          IN /\ Members(ret.removed) = gone
             /\ Len(ret.removed) = Cardinality(gone)
             /\ KeptInOrder(rankedQueue, ret.before, gone)
             /\ KeptInOrder(unrankedQueue, ret.beforeU, gone)
    /\ \A e \in Eids : removeCount[e] <= 1

\* An expire call removed a ranked and an unranked entry and kept an entry
\* that had waited exactly 60 s
C14_Witness ==
    /\ ret.op = "expire"
    /\ \E i, j \in 1..Len(ret.removed) :
          /\ ret.removed[i].queueType = "ranked"
          /\ ret.removed[j].queueType = "unranked"
    /\ \E p \in Members(rankedQueue) \cup Members(unrankedQueue) :
          ret.at - p.queuedAt = MATCH_TIMEOUT

\* The entries of q that belong to other connections than s, in order
OfOthers(q, s) ==
    LET other(p) == p.socketId # s
    IN SelectSeq(q, other)

\* C15: a dequeue call returned true exactly when an entry of the connection
\* was stored, has left no entry of the connection in either queue, and has
\* left the entries of the other connections as they were
C15_DequeueRemovesTheConnection ==
    ret.op = "dequeue" =>
        LET s == ret.player.socketId
        IN /\ ret.result <=>
                  \E p \in Members(ret.before) \cup Members(ret.beforeU) : p.socketId = s
           /\ \A p \in Members(rankedQueue) \cup Members(unrankedQueue) : p.socketId # s
           /\ rankedQueue = OfOthers(ret.before, s)
           /\ unrankedQueue = OfOthers(ret.beforeU, s)

\* The unranked entries of another identity than the joiner's that were
\* waiting when the last enqueue ran, by position
OtherIdentity == {i \in 1..Len(ret.beforeU) : ret.beforeU[i].wallet # ret.player.wallet}

\* C16: an unranked enqueue returned the waiting unranked entry of a
\* different identity that was queued first, whatever the two ratings and
\* waiting times, and returned none only when no such entry was waiting
C16_UnrankedPairsFirstOtherIdentity ==
    (ret.op = "enqueue" /\ ret.player.queueType = "unranked") =>
        IF OtherIdentity = {}
        THEN ret.matched = <<>>
        ELSE \E i \in OtherIdentity :
                /\ \A j \in OtherIdentity :
                      /\ i <= j
                      /\ ret.beforeU[i].queuedAt <= ret.beforeU[j].queuedAt
                /\ ret.matched = <<ret.beforeU[i]>>

\* An unranked enqueue returned the first of two waiting entries, 300 rating
\* points away and waiting for 60 s, although the second was closer in
\* rating and had waited less
C16_Witness ==
    /\ ret.op = "enqueue"
    /\ ret.player.queueType = "unranked"
    /\ Len(ret.beforeU) = 2
    /\ ret.matched = <<ret.beforeU[1]>>
    /\ RatingGap(ret.player, ret.beforeU[1]) = 300
    /\ RatingGap(ret.player, ret.beforeU[2]) = 40
    /\ ret.at - ret.beforeU[1].queuedAt = MATCH_TIMEOUT
    /\ ret.at - ret.beforeU[2].queuedAt < MATCH_TIMEOUT

\* The waiting ranked entries of another identity within the initial radius
\* of the joiner of the last enqueue
WithinInitialRadius ==
    {i \in 1..Len(ret.before) :
        /\ ret.before[i].wallet # ret.player.wallet
        /\ RatingGap(ret.player, ret.before[i]) <= RATING_RANGE_INITIAL}

\* C17: a ranked enqueue that finds a waiting entry of another identity
\* within the initial radius of 100, as 1000 and 1040 are, pairs at once
\* with an entry that close; two entries 300 apart, as 1000 and 1300 are, are
\* paired only when both have waited at least 40 s
C17_RadiusGrowsWithWait ==
    RankedEnqueueDone =>
        /\ WithinInitialRadius # {} =>
              /\ ret.matched # <<>>
              /\ RatingGap(ret.player, ret.matched[1]) <= RATING_RANGE_INITIAL
        /\ (ret.matched # <<>> /\ RatingGap(ret.player, ret.matched[1]) = 300) =>
              /\ ret.at - ret.player.queuedAt >= 4 * RATING_EXPAND_INTERVAL
              /\ ret.at - ret.matched[1].queuedAt >= 4 * RATING_EXPAND_INTERVAL

\* Entries rated 1000 and 1300 were paired when both had waited exactly 40 s
C17_Witness ==
    /\ RankedEnqueueDone
    /\ ret.matched # <<>>
    /\ {ret.player.rating, ret.matched[1].rating} = {1000, 1300}
    /\ ret.at - ret.player.queuedAt = 4 * RATING_EXPAND_INTERVAL
    /\ ret.at - ret.matched[1].queuedAt = 4 * RATING_EXPAND_INTERVAL

\* The entry with identifier e is stored in one of the queues
Stored(e) == e \in StoredEids

\* The stored entry with identifier e
EntryOf(e) ==
    CHOOSE p \in Members(rankedQueue) \cup Members(unrankedQueue) : p.eid = e

\* The last time the clock of the model reaches
Horizon == MaxTicks * TickMs

\* An entry is stored whose timeout passes within the time modelled
Overdue ==
    \E e \in Eids : Stored(e) /\ EntryOf(e).queuedAt + MATCH_TIMEOUT < Horizon

\* C18: with cleanupExpiredPlayers called again and again, the stored
\* entries whose timeout passes within the time modelled are all removed in
\* the end, by a match, a dequeue or a cleanup, and after a cleanup call no
\* entry is stored that had waited more than 60 s when the call ran
C18_EveryEntryLeaves ==
    /\ <>[](~Overdue)
    /\ [](ret.op = "expire" =>
             \A p \in Members(rankedQueue) \cup Members(unrankedQueue) :
                 ret.at - p.queuedAt <= MATCH_TIMEOUT)

\* The cleanup call at the end of the clock removed an unranked entry that
\* had waited 80 s and left the queues empty
C18_Witness ==
    /\ ret.op = "expire"
    /\ ret.at = Horizon
    /\ \E i \in 1..Len(ret.removed) :
          /\ ret.removed[i].queueType = "unranked"
          /\ ret.removed[i].queuedAt = 0
    /\ StoredEids = {}

\* joinMatch must refuse: the match is unknown, has a second player or is
\* not waiting
NotJoinable(m) ==
    \/ m \notin DOMAIN matches
    \/ matches[m].player2 # NullPlayer
    \/ matches[m].status # "waiting"

\* C19: joinMatch on a match that is unknown, already has a second player
\* or is not waiting returns null and leaves the match's second player,
\* status and game state, and the match table, as they were
C19_RefusedJoinChangesNothing ==
    [][\A m \in MatchIds :
          (ev'.op = "joinMatch" /\ ev'.matchId = m /\ NotJoinable(m)) =>
              /\ ev'.outcome = "null"
              /\ DOMAIN matches' = DOMAIN matches
              /\ m \in DOMAIN matches =>
                    /\ matches'[m].player2 = matches[m].player2
                    /\ matches'[m].status = matches[m].status
                    /\ matches'[m].gameState = matches[m].gameState
              /\ matchStatus' = matchStatus]_vars

\* A second player was refused by an active match that keeps its own second
\* player
C19_Witness ==
    /\ ev.op = "joinMatch"
    /\ ev.outcome = "null"
    /\ ev.matchId \in DOMAIN matches
    /\ matches[ev.matchId].status = "active"
    /\ matches[ev.matchId].player2.socketId # ev.socketId

\* C20: a paddle update applied to a match whose status is completed or
\* cancelled changes no field of its game state
C20_PaddleUpdateOnFinishedMatchIsNoOp ==
    [][\A m \in MatchIds :
          (ev'.op = "updatePaddle" /\ ev'.matchId = m /\ TornDown(m)) =>
              /\ m \in DOMAIN matches' <=> m \in DOMAIN matches
              /\ m \in DOMAIN matches =>
                    matches'[m].gameState = matches[m].gameState]_vars

----------------------------------------------------------------------------
(* The simulation: scoring, countdown, paddles and deltas *)

\* The game state of the match the simulation runs on
Sim == matches["m1"].gameState

\* The step is a tick of the running loop on the active match
SimTick ==
    /\ ev'.op = "tick"
    /\ ev'.outcome # "stale"
    /\ "m1" \in DOMAIN matches
    /\ matches["m1"].status = "active"

\* The ball is in play and this tick's movement takes it beyond the left
\* edge, or beyond the right edge.  A ball that far out is outside the reach
\* of either paddle, so no collision brings it back within the tick.
LeavesLeft == Sim.gameStarted /\ less(plus(Sim.ballX, Sim.ballVelX), Zero)
LeavesRight ==
    Sim.gameStarted /\ less(num(CANVAS_WIDTH), plus(Sim.ballX, Sim.ballVelX))

\* The velocity of gs has the length 3, to a hundred-thousandth of its square
AtServeSpeed(gs) ==
    LET square == plus(times(gs.ballVelX, gs.ballVelX), times(gs.ballVelY, gs.ballVelY))
    IN atMost(Math_abs(minus(square, num(9))), ratio(1, 100000))

\* The ball lies on the centre at speed 3 and a new countdown from 3 has begun
Recentred(gs) ==
    /\ gs.ballX = num(400)
    /\ gs.ballY = num(225)
    /\ gs.ballSpeed = num(3)
    /\ AtServeSpeed(gs)
    /\ ~gs.gameStarted
    /\ gs.isCountingDown
    /\ gs.countdown = 3

\* C21: a tick on which the ball ends left of the canvas gives player 2
\* exactly one point and player 1 none, puts the ball on the centre at speed
\* 3 moving toward player 1 and starts a countdown from 3; the same mirrored
\* on the right; every other tick leaves both scores as they were
C21_PointGoesToTheOtherSide ==
    [][SimTick =>
          LET gs == matches'["m1"].gameState
          IN IF LeavesLeft
             THEN /\ gs.player2Score = Sim.player2Score + 1
                  /\ gs.player1Score = Sim.player1Score
                  /\ Recentred(gs)
                  /\ less(gs.ballVelX, Zero)
             ELSE IF LeavesRight
                  THEN /\ gs.player1Score = Sim.player1Score + 1
                       /\ gs.player2Score = Sim.player2Score
                       /\ Recentred(gs)
                       /\ less(Zero, gs.ballVelX)
                  ELSE /\ gs.player1Score = Sim.player1Score
                       /\ gs.player2Score = Sim.player2Score]_vars

\* Player 2 has just scored the first point of the match: the ball is back on
\* the centre and the serve goes to player 1
C21_Witness ==
    /\ "m1" \in DOMAIN matches
    /\ Sim.player2Score = 1
    /\ Sim.player1Score = 0
    /\ sinceServe = 0
    /\ less(Sim.ballVelX, Zero)
    /\ Sim.isCountingDown
    /\ goalsLeft = MaxPoints - 1

\* The ball: its position and its velocity
Ball(gs) == <<gs.ballX, gs.ballY, gs.ballVelX, gs.ballVelY>>

\* The length of one countdown in ticks: three seconds of sixty ticks
CountdownTicks == 3 * 60

\* While the match counts down, the countdown shown is 3 less one for every
\* sixty ticks since the serve, and play has not begun; once play has begun
\* the whole countdown lies behind it
CountdownFollowsTicks ==
    ("m1" \in DOMAIN matches /\ matches["m1"].status = "active") =>
        IF Sim.gameStarted
        THEN sinceServe >= CountdownTicks /\ ~Sim.isCountingDown
        ELSE /\ Sim.isCountingDown
             /\ sinceServe < CountdownTicks
             /\ Sim.countdown = 3 - sinceServe \div 60
             /\ matches["m1"].countdownTicks = sinceServe % 60

\* A tick of a countdown leaves the ball where it is and starts play exactly
\* when it is the 180th; the tick after that one moves the ball by its
\* velocity
CountdownTick ==
    SimTick =>
        LET gs == matches'["m1"].gameState
        IN /\ ~Sim.gameStarted =>
                 /\ Ball(gs) = Ball(Sim)
                 /\ gs.gameStarted <=> sinceServe' = CountdownTicks
                 /\ gs.countdown = IF sinceServe' % 60 = 0
                                   THEN Sim.countdown - 1 ELSE Sim.countdown
           /\ (Sim.gameStarted /\ sinceServe = CountdownTicks) =>
                 /\ gs.ballX = plus(Sim.ballX, Sim.ballVelX)
                 /\ gs.ballY = plus(Sim.ballY, Sim.ballVelY)
                 /\ gs.ballX # Sim.ballX

\* C22: during every countdown of a match, the first and those after a
\* point, a tick never moves the ball or changes its velocity, the countdown
\* goes down by one on every 60th tick, play starts exactly on the 180th
\* tick, and the ball first moves on the tick after it
C22_CountdownHoldsTheBall ==
    []CountdownFollowsTicks /\ [][CountdownTick]_vars

\* A countdown entered after a point has run out and the new ball has made
\* its first movement
C22_Witness ==
    /\ "m1" \in DOMAIN matches
    /\ Sim.player1Score + Sim.player2Score = 1
    /\ Sim.gameStarted
    /\ sinceServe = CountdownTicks + 1
    /\ Sim.ballX # num(400)

\* The highest position of a paddle: the arena height less the paddle
\* height, 370
PaddleTop == num(CANVAS_HEIGHT - PADDLE_HEIGHT)

\* The position a requested position is clamped to
Clamped(y) ==
    IF less(y, Zero) THEN Zero ELSE IF less(PaddleTop, y) THEN PaddleTop ELSE y

\* The position y of a paddle lies on the canvas
OnCanvas(y) == atMost(Zero, y) /\ atMost(y, PaddleTop)

\* Both paddles of every match are on the canvas
PaddlesOnCanvas ==
    \A m \in DOMAIN matches :
        /\ OnCanvas(matches[m].gameState.player1PaddleY)
        /\ OnCanvas(matches[m].gameState.player2PaddleY)

\* A paddle update puts the addressed paddle on the clamped position and
\* leaves every other field of the game state, and the match around it, alone
PaddleUpdate ==
    (ev'.op = "updatePaddle" /\ ev'.matchId \in DOMAIN matches) =>
        LET m == ev'.matchId
            y == Clamped(ev'.paddleY)
        IN matches' = IF ev'.handle = 1
                      THEN [matches EXCEPT ![m].gameState.player1PaddleY = y]
                      ELSE [matches EXCEPT ![m].gameState.player2PaddleY = y]

\* C23: a paddle update sets the addressed paddle to the requested position
\* clamped to [0, 370] and changes no other field of the simulation; both
\* paddles lie in [0, 370] in every reachable state
C23_PaddleStaysOnCanvas ==
    []PaddlesOnCanvas /\ [][PaddleUpdate]_vars

\* Player 2 asked for a position below the canvas while the ball was in
\* play, and the paddle stands at 370
C23_Witness ==
    /\ ev.op = "updatePaddle"
    /\ ev.handle = 2
    /\ less(PaddleTop, ev.paddleY)
    /\ "m1" \in DOMAIN matches
    /\ Sim.player2PaddleY = PaddleTop
    /\ Sim.player1PaddleY = num(185)
    /\ Sim.gameStarted

\* Connection c holds a slot of match m
Participant(c, m) ==
    /\ m \in DOMAIN matches
    /\ c \in {matches[m].player1.socketId, matches[m].player2.socketId}

\* Match m is tracked as active by the server
Tracked(m) == \E i \in 1..Len(activeMatches) : activeMatches[i].matchId = m

\* The game manager's tables are as they were
SimulationUnchanged ==
    UNCHANGED <<matches, gameLoops, previousStates, intervals, matchStatus>>

\* C24: an update_paddle event from connection c for match m changes the
\* simulation only if c holds a slot of m and m is tracked as active, and
\* then only the paddle of c's own slot; from anyone else, or for an unknown
\* match id, it changes nothing
C24_OnlyParticipantsMoveTheirPaddle ==
    [][ev'.op = "update_paddle" =>
          LET c == ev'.socketId
              m == ev'.matchId
          IN IF Participant(c, m) /\ Tracked(m)
             THEN \/ SimulationUnchanged
                  \/ /\ matches[m].player1.socketId = c
                     /\ matches' = [matches EXCEPT ![m].gameState.player1PaddleY =
                                                      Clamped(ev'.paddleY)]
                     /\ UNCHANGED <<gameLoops, previousStates, intervals>>
                  \/ /\ matches[m].player2.socketId = c
                     /\ matches' = [matches EXCEPT ![m].gameState.player2PaddleY =
                                                      Clamped(ev'.paddleY)]
                     /\ UNCHANGED <<gameLoops, previousStates, intervals>>
             ELSE SimulationUnchanged]_vars

\* Player 2 has moved the paddle of the second slot of a tracked match
C24_Witness ==
    /\ ev.op = "update_paddle"
    /\ ev.matchId = "m1"
    /\ "m1" \in DOMAIN matches
    /\ Tracked("m1")
    /\ matches["m1"].player2.socketId = ev.socketId
    /\ matches["m1"].gameState.player2PaddleY = PaddleTop
    /\ matches["m1"].gameState.player1PaddleY = num(185)

\* The tick went through to the emission of an update
EmittingTick == SimTick /\ ev'.outcome = "update"

\* Field f of the current state differs from the cached one: to two
\* decimals for the continuous fields, at all for the others
Differs(f, cur, cached) ==
    IF f \in RoundedFields
    THEN round(cur[f]) # round(cached[f])
    ELSE cur[f] # cached[f]

\* C25: the first tick of a match's loop emits the full snapshot; every
\* later tick that leaves the match active emits exactly the fields that
\* differ from the snapshot cached at the tick before, continuous fields
\* compared to two decimals and the others exactly, each with its current
\* value; and every such tick caches the full current snapshot
C25_DeltaIsTheChangedFields ==
    [][EmittingTick =>
          LET cur == matches'["m1"].gameState
          IN /\ IF "m1" \notin DOMAIN previousStates
                THEN emitted' = cur
                ELSE /\ DOMAIN emitted' =
                           {f \in RoundedFields \cup ExactFields :
                               Differs(f, cur, previousStates["m1"])}
                     /\ \A f \in DOMAIN emitted' : emitted'[f] = cur[f]
             /\ "m1" \in DOMAIN previousStates'
             /\ previousStates'["m1"] = cur]_vars

\* A later tick of the countdown after player 1 moved the paddle by four
\* thousandths: the paddle is in the cache with its new position and the
\* delta emitted was empty
C25_Witness ==
    /\ ev.op = "tick"
    /\ ev.outcome = "update"
    /\ "m1" \in DOMAIN previousStates
    /\ previousStates["m1"].player1PaddleY = ratio(185004, 1000)
    /\ sinceServe = MoveEvery + 1
    /\ DOMAIN emitted = {}

\* Between the tick before and this one no continuous field moved by more
\* than a hundredth of a unit and no other field changed
NoMotion(cur, cached) ==
    /\ \A f \in RoundedFields :
          atMost(Math_abs(minus(cur[f], cached[f])), ratio(1, 100))
    /\ \A f \in ExactFields : cur[f] = cached[f]

\* C26: after the first full snapshot, a tick whose state is within a
\* hundredth of a unit of the state at the tick before, with no discrete
\* field changed, emits an empty delta
C26_NoMotionGivesEmptyDelta ==
    [][(EmittingTick /\ "m1" \in DOMAIN previousStates
           /\ NoMotion(matches'["m1"].gameState, previousStates["m1"]))
          => DOMAIN emitted' = {}]_vars

----------------------------------------------------------------------------
(* Rating records, persistence and the independence of matches *)

\* The step resolved a ranked match that wallet w played
RankedResolutionOf(w) ==
    \E m \in MatchIds :
        /\ Len(resolved'[m]) = Len(resolved[m]) + 1
        /\ LET r == resolved'[m][Len(resolved'[m])]
           IN r.queueType = "ranked" /\ w \in {r.winner, r.loser}

\* C27: a rating record that exists is never deleted and changes only when
\* a ranked match of its wallet is completed or forfeited; get_rating, with
\* its load from storage interleaved with any other event, never changes
\* the rating or the placement count of a record that already exists
C27_RatingRecordChangesOnlyByRankedResult ==
    [][\A w \in DOMAIN playerData :
          /\ w \in DOMAIN playerData'
          /\ playerData'[w] # playerData[w] => RankedResolutionOf(w)]_vars

\* The rating change the rating engine computed for wallet w in resolution
\* r: the winner's or the loser's change from the ratings and placement
\* counts the resolution found, 0 for an unranked match
EngineChange(r, w) ==
    LET pd == getPlayerData(getPlayerData(r.before, r.winner), r.loser)
        changes == calculateEloChange(pd[r.winner].rating, pd[r.loser].rating,
                                      pd[r.winner].placementGames,
                                      pd[r.loser].placementGames)
    IN IF r.queueType # "ranked" THEN 0
       ELSE IF w = r.winner THEN changes.winnerChange ELSE changes.loserChange

\* C28: the outcome summary handed to persistence for a match ended by
\* completion or by forfeit names the actual winner and carries, for player 1
\* and for player 2, the rating change the rating engine computed for that
\* player, 0 and 0 for an unranked match
C28_SummaryCarriesEachPlayersChange ==
    \A m \in MatchIds : \A i \in 1..Len(resolved[m]) :
        LET r == resolved[m][i]
        IN /\ r.record.winnerWallet = r.winner
           /\ r.record.player1RatingChange = EngineChange(r, r.record.player1Wallet)
           /\ r.record.player2RatingChange = EngineChange(r, r.record.player2Wallet)

\* The step is a persistence call settling with a failure
PersistenceFailed ==
    /\ ev'.op \in {"updatePlayerAfterMatch", "recordMatch"}
    /\ ev'.outcome = "failed"

\* Every persistence call in flight belongs to a match whose end has been
\* resolved and notified
CallsFollowTheNotification ==
    /\ \A c \in persisting.updates : resolved[c.matchId] # <<>>
    /\ \A c \in persisting.records : resolved[c.matchId] # <<>>

\* A failed call leaves the ratings, the placement counts, the match tables
\* and the queues as they were, and is gone from the calls in flight with
\* no call issued in its place
FailureIsSwallowed ==
    PersistenceFailed =>
        /\ UNCHANGED <<playerData, matches, gameLoops, previousStates, intervals,
                       activeMatches, rankedQueue, unrankedQueue, resolved>>
        /\ persisting'.updates \subseteq persisting.updates
        /\ persisting'.records \subseteq persisting.records
        /\ Cardinality(persisting'.updates) + Cardinality(persisting'.records)
              = Cardinality(persisting.updates) + Cardinality(persisting.records) - 1

\* C29: a persistence call issued at match end that fails is swallowed: the
\* ratings and placement counts already applied, the match tables and the
\* queues stay exactly as they were, the call is not issued again, and the
\* match_ended notifications have gone out before it
C29_PersistenceFailureIsSwallowed ==
    []CallsFollowTheNotification /\ [][FailureIsSwallowed]_vars

\* The record of a completed ranked match has failed to be written while
\* another player waits in a queue; the ratings the match gave stay applied
C29_Witness ==
    /\ ev.op = "recordMatch"
    /\ ev.outcome = "failed"
    /\ Len(resolved["m1"]) = 1
    /\ resolved["m1"][1].kind = "completed"
    /\ resolved["m1"][1].queueType = "ranked"
    /\ playerData = resolved["m1"][1].after
    /\ resolved["m1"][1].after # resolved["m1"][1].before
    /\ Len(rankedQueue) + Len(unrankedQueue) = 1

\* The matches the step acts on: the match of a tick or of a paddle update,
\* a match cancelled, a match completed or forfeited
ActedOn ==
    (IF ev'.op \in {"tick", "update_paddle"} THEN {ev'.matchId} ELSE {})
    \cup (cancelled' \ cancelled)
    \cup {m \in MatchIds : Len(resolved'[m]) > Len(resolved[m])}

\* What the game manager holds for match m: its record with the simulation
\* state and the status, its loop handle, its timers, its cached snapshot
HeldFor(ms, loops, timers, snapshots, m) ==
    [match |-> IF m \in DOMAIN ms THEN <<ms[m]>> ELSE <<>>,
     loop |-> IF m \in DOMAIN loops THEN <<loops[m]>> ELSE <<>>,
     timers |-> {h \in DOMAIN timers : timers[h].matchId = m},
     snapshot |-> IF m \in DOMAIN snapshots THEN <<snapshots[m]>> ELSE <<>>]

\* Every match the step does not act on is held as before
OthersUntouched ==
    \A b \in MatchIds \ ActedOn :
        /\ HeldFor(matches', gameLoops', intervals', previousStates', b)
              = HeldFor(matches, gameLoops, intervals, previousStates, b)
        /\ matchStatus'[b] = matchStatus[b]

\* The queues as removeFromQueue(s) leaves them (index.ts line 617, the
\* first statement of the disconnect handler, before the loop that
\* forfeits): without the first ranked entry of connection s, or, when there
\* is none, without its first unranked entry
QueuesLeftBy(s) ==
    LET r == {i \in 1..Len(rankedQueue) : rankedQueue[i].socketId = s}
        u == {i \in 1..Len(unrankedQueue) : unrankedQueue[i].socketId = s}
    IN IF r # {} THEN <<RemoveAt(rankedQueue, FindIndex(r)), unrankedQueue>>
       ELSE IF u # {} THEN <<rankedQueue, RemoveAt(unrankedQueue, FindIndex(u))>>
       ELSE <<rankedQueue, unrankedQueue>>

\* The step leaves the queues alone.  A forfeit is the loop of the
\* disconnect handler (index.ts lines 623-693), which runs after the handler
\* has taken the connection out of the queue: it leaves the queues as that
\* removal left them, which is as they were for a connection that was not
\* queued.
QueuesUntouched ==
    IF connected' = connected
    THEN UNCHANGED <<rankedQueue, unrankedQueue>>
    ELSE \A s \in connected \ connected' :
            <<rankedQueue', unrankedQueue'>> = QueuesLeftBy(s)

\* C30: a tick, paddle update, cancel, completion or forfeit of a match
\* leaves the simulation state, status, tick loop and cached snapshot of
\* every other match unchanged, and leaves both queues unchanged
C30_MatchesAreIndependent ==
    [][ActedOn # {} => OthersUntouched /\ QueuesUntouched]_vars

\* Match m1 has been forfeited by the disconnect of a participant while
\* match m2 runs on with its loop, its status and its cached snapshot
C30_Witness ==
    /\ Len(resolved["m1"]) = 1
    /\ resolved["m1"][1].kind = "forfeit"
    /\ connected # Sockets
    /\ "m2" \in DOMAIN matches
    /\ matches["m2"].status = "active"
    /\ "m2" \in DOMAIN gameLoops
    /\ "m2" \in DOMAIN previousStates

----------------------------------------------------------------------------
(* The rating engine and the rating records *)

\* C31: whatever the ratings and the placement counts of winner and loser,
\* the change computed for the winner is at least 1 and the change computed
\* for the loser is at most -1
C31_WinnerGainsLoserLoses ==
    eloCall.returned => eloCall.winnerChange >= 1 /\ eloCall.loserChange <= -1

\* A winner rated 1000 above the loser, both past placement: the rounded
\* changes are 0 and the engine has returned 1 and -1
C31_Witness ==
    /\ eloCall.returned
    /\ eloCall.winnerRating - eloCall.loserRating = 1000
    /\ eloCall.winnerPlacementGames = PLACEMENT_GAMES
    /\ eloCall.loserPlacementGames = PLACEMENT_GAMES
    /\ eloCall.winnerChange = 1
    /\ eloCall.loserChange = -1

\* C32: every rating record has a rating of 0 or more and a placement count
\* from 0 to the threshold of 10: a losing update is clamped at 0 and a
\* counter at the threshold is not incremented
C32_RatingRecordsStayInRange ==
    \A w \in DOMAIN playerData :
        /\ playerData[w].rating >= 0
        /\ playerData[w].placementGames \in 0..PLACEMENT_GAMES

\* A player rated 10 with the placement games played has lost a ranked match
\* to a player of the same rating: the rating is 0 and the count still 10
C32_Witness ==
    \E m \in MatchIds :
        /\ Len(resolved[m]) = 1
        /\ LET r == resolved[m][1]
           IN /\ r.queueType = "ranked"
              /\ r.loser \in DOMAIN r.before
              /\ r.winner \in DOMAIN r.before
              /\ r.before[r.loser] = [rating |-> 10, placementGames |-> PLACEMENT_GAMES]
              /\ r.before[r.winner].rating = 10
              /\ r.after[r.loser] = [rating |-> 0, placementGames |-> PLACEMENT_GAMES]
              /\ playerData = r.after

\* C33: an unranked match, however it ends, never causes a write of a
\* player's rating record to persistent storage: every updatePlayerAfterMatch
\* call in flight was issued by the end of a ranked match
C33_OnlyRankedMatchesWriteRatings ==
    \A c \in persisting.updates :
        \A i \in 1..Len(resolved[c.matchId]) :
            resolved[c.matchId][i].queueType = "ranked"

\* The ball of gs overlaps the band of the left paddle, of the right paddle
OverlapsLeft(gs) ==
    /\ atMost(gs.ballX, num(PADDLE_OFFSET + PADDLE_WIDTH))
    /\ atMost(num(PADDLE_OFFSET), plus(gs.ballX, num(BALL_SIZE)))
    /\ atMost(gs.player1PaddleY, plus(gs.ballY, num(BALL_SIZE)))
    /\ atMost(gs.ballY, plus(gs.player1PaddleY, num(PADDLE_HEIGHT)))
OverlapsRight(gs) ==
    /\ atMost(num(CANVAS_WIDTH - PADDLE_OFFSET - PADDLE_WIDTH),
              plus(gs.ballX, num(BALL_SIZE)))
    /\ atMost(gs.ballX, num(CANVAS_WIDTH - PADDLE_OFFSET))
    /\ atMost(gs.player2PaddleY, plus(gs.ballY, num(BALL_SIZE)))
    /\ atMost(gs.ballY, plus(gs.player2PaddleY, num(PADDLE_HEIGHT)))

\* The ball speed after a hit: 0.3 more, and 12 at most
Faster(speed) ==
    LET grown == plus(speed, ratio(3, 10))
    IN IF less(num(BALL_SPEED_MAX), grown) THEN num(BALL_SPEED_MAX) ELSE grown

\* A tick that registers a hit of the left paddle: the ball was moving left
\* and where the tick takes it overlaps the paddle; afterwards it moves
\* right, lies against the paddle's face and is faster by 0.3
LeftHit ==
    SimTick /\ ev'.hit = "left" =>
        /\ less(Sim.ballVelX, Zero)
        /\ OverlapsLeft(wallBounce(Sim))
        /\ less(Zero, Sim'.ballVelX)
        /\ Sim'.ballX = num(PADDLE_OFFSET + PADDLE_WIDTH)
        /\ Sim'.ballSpeed = Faster(Sim.ballSpeed)
        /\ ev.hit # "left"

RightHit ==
    SimTick /\ ev'.hit = "right" =>
        /\ less(Zero, Sim.ballVelX)
        /\ OverlapsRight(wallBounce(Sim))
        /\ less(Sim'.ballVelX, Zero)
        /\ plus(Sim'.ballX, num(BALL_SIZE))
              = num(CANVAS_WIDTH - PADDLE_OFFSET - PADDLE_WIDTH)
        /\ Sim'.ballSpeed = Faster(Sim.ballSpeed)
        /\ ev.hit # "right"

\* C34: a paddle hit is registered only on a tick where the ball moves toward
\* that paddle and overlaps its band; after it the ball moves away from the
\* paddle, lies flush against its face and is faster by 0.3, 12 at most; the
\* tick before did not register a hit of the same paddle; and no tick
\* registers a hit of both paddles
C34_PaddleHit ==
    [][LeftHit /\ RightHit /\ ev'.hit # "both"]_vars

\* The right paddle has just returned a ball that the left paddle had
\* returned before: the ball lies against the paddle's face at speed 3.6,
\* moving left
C34_Witness ==
    /\ ev.op = "tick"
    /\ ev.hit = "right"
    /\ "m1" \in DOMAIN matches
    /\ plus(Sim.ballX, num(BALL_SIZE))
          = num(CANVAS_WIDTH - PADDLE_OFFSET - PADDLE_WIDTH)
    /\ Sim.ballSpeed = Faster(Faster(num(BALL_SPEED_INITIAL)))
    /\ less(Sim.ballVelX, Zero)

----------------------------------------------------------------------------
(* Matching and the lifetime of queue entries *)

\* C35: enqueue never returns as matched opponent an entry that has waited
\* more than 60 s: an entry past its timeout that expire has not swept yet
\* is not eligible for matching
C35_NoMatchPastTheTimeout ==
    ret.op = "enqueue" =>
        \A i \in 1..Len(ret.matched) : ~TimedOut(ret.matched[i])

\* The step returns an opponent: it is an enqueue, the opponent was stored
\* in the ranked queue, and the joiner it is paired with was not stored
\* before and is not stored afterwards
PairsJoinerWithStored ==
    matchCount' # matchCount =>
        /\ ret'.op = "enqueue"
        /\ Len(ret'.matched) = 1
        /\ ret'.matched[1] \in Members(rankedQueue)
        /\ ret'.matched[1].eid # ret'.player.eid
        /\ matchCount'[ret'.matched[1].eid] = matchCount[ret'.matched[1].eid] + 1
        /\ \A q \in Members(rankedQueue) \cup Members(rankedQueue') :
              q.eid # ret'.player.eid

\* A stored entry that the step takes out of the ranked queue was returned to
\* the joiner of an enqueue, removed by a dequeue or removed by an expire
LeavesByMatchDequeueOrExpire ==
    \A p \in Members(rankedQueue) \ Members(rankedQueue') :
        /\ ret'.op \in {"enqueue", "dequeue", "expire"}
        /\ IF ret'.op = "enqueue"
           THEN ret'.matched = <<p>> /\ ret'.player.eid = nextEid
           ELSE \E i \in 1..Len(ret'.removed) : ret'.removed[i] = p

\* C36: pairing happens only inside an enqueue, between the joiner and one
\* stored entry; entries that are both stored in the ranked queue are never
\* paired with each other, and a stored entry leaves the queue only by being
\* matched to a later joiner, by dequeue or by expire
C36_PairingOnlyOnEnqueue ==
    [][PairsJoinerWithStored /\ LeavesByMatchDequeueOrExpire]_vars

\* Two entries of different identities, 300 rating points apart, are both
\* stored in the ranked queue after 40 s, when the radius of either has grown
\* to 300, and none of them has been paired
C36_Witness ==
    /\ Len(rankedQueue) = 2
    /\ rankedQueue[1].wallet # rankedQueue[2].wallet
    /\ RatingGap(rankedQueue[1], rankedQueue[2]) = 300
    /\ now - rankedQueue[1].queuedAt >= 40000
    /\ now - rankedQueue[2].queuedAt >= 40000
    /\ now - rankedQueue[1].queuedAt <= MATCH_TIMEOUT
    /\ matchCount[rankedQueue[1].eid] = 0
    /\ matchCount[rankedQueue[2].eid] = 0

----------------------------------------------------------------------------
(* Connections, queues and matches *)

\* Match m has a tick loop running, or a start timer pending
LoopRunningOrPending(m) ==
    \/ m \in DOMAIN gameLoops
    \/ \E h \in DOMAIN intervals : intervals[h].matchId = m
    \/ \E p \in pendingStarts : p.matchId = m

\* C37: after a connection's disconnect has been handled, no queue holds an
\* entry of the connection, and no match with a running or pending tick loop
\* has the connection as a participant
C37_DisconnectedConnectionIsGone ==
    \A s \in Sockets \ connected :
        /\ \A p \in Members(rankedQueue) \cup Members(unrankedQueue) : p.socketId # s
        /\ \A m \in MatchIds : Participant(s, m) => ~LoopRunningOrPending(m)

\* The matches connection c is a participant of that have not ended
Unfinished(c) ==
    {m \in MatchIds : Participant(c, m) /\ matches[m].status \in {"waiting", "active"}}

\* C38: at any time a connection is a participant of at most one match that
\* has not ended, whatever join_queue events it sends to the two queues
C38_OneUnfinishedMatchPerConnection ==
    \A c \in Sockets : Cardinality(Unfinished(c)) <= 1

\* C39: the two participants of every created match have distinct
\* connection handles, and distinct identities
C39_ParticipantsAreTwoConnections ==
    \A m \in DOMAIN matches :
        matches[m].player2 # NullPlayer =>
            /\ matches[m].player1.socketId # matches[m].player2.socketId
            /\ matches[m].player1.wallet # matches[m].player2.wallet

----------------------------------------------------------------------------
(* The receiver of the deltas *)

\* The receiver holds every field, the discrete ones as the simulation has
\* them and the continuous ones equal to the simulation's when both are
\* rounded to two decimals
Tracks(held, gs) ==
    /\ DOMAIN held = RoundedFields \cup ExactFields
    /\ \A f \in ExactFields : held[f] = gs[f]
    /\ \A f \in RoundedFields : held[f] = gs[f] \/ round(held[f]) = round(gs[f])

\* C40: after every tick that emits a delta, a receiver that started from
\* the first full snapshot and put each later delta over what it held holds
\* the discrete fields of the simulation state and continuous fields that
\* round to the same two decimals; changes too small to be emitted do not
\* add up to a larger difference
C40_ReceiverTracksTheSimulation ==
    (ev.op = "tick" /\ ev.outcome = "update") => Tracks(received, Sim)

\* A paddle has moved by four thousandths, the delta of the next tick did
\* not carry it, and the receiver holds the position from before
C40_Witness ==
    /\ ev.op = "tick"
    /\ ev.outcome = "update"
    /\ Sim.gameStarted
    /\ \E f \in {"player1PaddleY", "player2PaddleY"} :
          /\ Sim[f] = ratio(185004, 1000)
          /\ received[f] = num(185)
          /\ f \notin DOMAIN emitted

=========================================================================
